---- MODULE Spec2Model ----
(***************************************************************************)
(* Bill splitting: the core computation (core.ts: splitBill, formatDate,   *)
(* calculateTip and their helpers) and the file/CLI layer around it        *)
(* (processor.ts, cli.ts).                                                 *)
(*                                                                         *)
(* Numbers are exact rationals [n, d] in lowest terms with d > 0; the      *)
(* non-finite values of JavaScript (NaN, Infinity) are the one value       *)
(* with d = 0.  Strings that the code takes apart (dates, file names) are  *)
(* sequences of one-character strings.                                     *)
(***************************************************************************)
EXTENDS Integers, Sequences, FiniteSets, TLC

VARIABLES
  input,        \* splitBill: the BillInput it was called with
  pc,           \* splitBill: the line it is at
  date,         \* splitBill: let date
  location,     \* splitBill: let location
  subTotal,     \* splitBill: let subTotal
  tip,          \* splitBill: let tip
  totalAmount,  \* splitBill: let totalAmount
  items,        \* splitBill: let items (PersonItem[]), mutated by adjustAmount
  outcome,      \* splitBill: "running", "returned" or "threw"
  tipCalls,     \* the last calls of calculateTip, each with its result
  args,         \* main: the command line it was called with
  fs,           \* the file system: its nodes, and whether the disk is full
  mpc,          \* main: where the run is
  mainFrame,    \* main: inputPath, outputPath
  singleFrame,  \* processSingleFile: its arguments, locals and caller
  batchFrame,   \* processBatchFiles: its locals
  thrown,       \* the error on its way up, or the last one caught
  mainResult,   \* main's promise: "pending", "resolved" or "rejected"
  calls,        \* the calls of splitBill so far, each with what came of it
  events,       \* what was done to which file, in order
  exitCode      \* cli.ts: the status the process exited with, -1 while it runs

coreVars == <<input, pc, date, location, subTotal, tip, totalAmount, items, outcome>>
tipVars == <<tipCalls>>
mainVars == <<args, fs, mpc, mainFrame, singleFrame, batchFrame, thrown,
              mainResult, calls, events, exitCode>>
vars == <<input, pc, date, location, subTotal, tip, totalAmount, items, outcome,
          tipCalls, args, fs, mpc, mainFrame, singleFrame, batchFrame, thrown,
          mainResult, calls, events, exitCode>>

(***************************************************************************)
(* Bounds of the model.                                                    *)
(***************************************************************************)
MaxItems == 3
MaxTipCalls == 2
MaxFiles == 2

(***************************************************************************)
(* JavaScript numbers, taken exactly.                                      *)
(***************************************************************************)
RECURSIVE Gcd(_, _)
Gcd(a, b) == IF b = 0 THEN a ELSE Gcd(b, a % b)

Abs(i) == IF i < 0 THEN -i ELSE i

NotFinite == [n |-> 0, d |-> 0]

IsFinite(x) == x.d # 0

Rat(n, d) ==
  IF d = 0 THEN NotFinite
  ELSE LET g == Gcd(Abs(n), Abs(d))
           s == IF d < 0 THEN -1 ELSE 1
       IN [n |-> s * (n \div g), d |-> s * (d \div g)]

Num(i) == [n |-> i, d |-> 1]

Add(x, y) ==
  IF ~IsFinite(x) \/ ~IsFinite(y) THEN NotFinite
  ELSE Rat(x.n * y.d + y.n * x.d, x.d * y.d)

Sub(x, y) ==
  IF ~IsFinite(x) \/ ~IsFinite(y) THEN NotFinite
  ELSE Rat(x.n * y.d - y.n * x.d, x.d * y.d)

Mul(x, y) ==
  IF ~IsFinite(x) \/ ~IsFinite(y) THEN NotFinite
  ELSE Rat(x.n * y.n, x.d * y.d)

\* x / y: a zero divisor gives Infinity or NaN
Div(x, y) ==
  IF ~IsFinite(x) \/ ~IsFinite(y) \/ y.n = 0 THEN NotFinite
  ELSE Rat(x.n * y.d, x.d * y.n)

\* x < y: every comparison with NaN is false
Less(x, y) == IsFinite(x) /\ IsFinite(y) /\ x.n * y.d < y.n * x.d

Leq(x, y) == IsFinite(x) /\ IsFinite(y) /\ x.n * y.d <= y.n * x.d

MathAbs(x) == IF IsFinite(x) THEN [n |-> Abs(x.n), d |-> x.d] ELSE NotFinite

\* Math.round: the nearest integer, a half going up
MathRound(x) ==
  IF ~IsFinite(x) THEN NotFinite
  ELSE Num((2 * x.n + x.d) \div (2 * x.d))

\* Math.round(x * 10) / 10
RoundTenth(x) == Div(MathRound(Mul(x, Num(10))), Num(10))

(***************************************************************************)
(* Strings as sequences of characters.                                     *)
(***************************************************************************)
Digits == <<"0", "1", "2", "3", "4", "5", "6", "7", "8", "9">>

IsDigit(c) == \E k \in 1..10 : Digits[k] = c

DigitValue(c) == (CHOOSE k \in 1..10 : Digits[k] = c) - 1

\* the characters U+5E74, U+6708 and U+65E5 (year, month, day) of the output date
DateMark == [year |-> "U+5E74", month |-> "U+6708", day |-> "U+65E5"]

Undefined == <<"undefined">>

NaNText == <<"N", "a", "N">>

\* date.split('-'): the pieces between the separators, empty pieces kept
RECURSIVE Split(_, _)
Split(s, sep) ==
  IF \A i \in 1..Len(s) : s[i] # sep THEN <<s>>
  ELSE LET k == CHOOSE i \in 1..Len(s) :
                  s[i] = sep /\ \A j \in 1..(i - 1) : s[j] # sep
       IN <<SubSeq(s, 1, k - 1)>> \o Split(SubSeq(s, k + 1, Len(s)), sep)

\* Number(text) of a decimal text: -1 stands for NaN
RECURSIVE DigitsValue(_)
DigitsValue(s) ==
  IF s = <<>> THEN 0
  ELSE 10 * DigitsValue(SubSeq(s, 1, Len(s) - 1)) + DigitValue(s[Len(s)])

NumberOf(s) ==
  IF s = Undefined THEN -1
  ELSE IF \A i \in 1..Len(s) : IsDigit(s[i]) THEN DigitsValue(s)
  ELSE -1

\* String(n) of a natural number, or of NaN
RECURSIVE NatText(_)
NatText(n) ==
  IF n < 10 THEN <<Digits[n + 1]>>
  ELSE NatText(n \div 10) \o <<Digits[(n % 10) + 1]>>

StringOf(n) == IF n < 0 THEN NaNText ELSE NatText(n)

(***************************************************************************)
(* core.ts                                                                 *)
(***************************************************************************)
Part(parts, i) == IF i <= Len(parts) THEN parts[i] ELSE Undefined

\* month and day copied as text, without Number()
formatDateKeepPadding(d) ==
  LET parts == Split(d, "-")
  IN Part(parts, 1) \o <<DateMark.year>> \o Part(parts, 2) \o <<DateMark.month>>
       \o Part(parts, 3) \o <<DateMark.day>>

formatDate(d) ==
  LET parts == Split(d, "-")
      y == Part(parts, 1)
      month == StringOf(NumberOf(Part(parts, 2)))
      day == StringOf(NumberOf(Part(parts, 3)))
  IN y \o <<DateMark.year>> \o month \o <<DateMark.month>> \o day \o <<DateMark.day>>

RECURSIVE calculateSubTotal(_)
calculateSubTotal(its) ==
  IF its = <<>> THEN Num(0)
  ELSE Add(calculateSubTotal(SubSeq(its, 1, Len(its) - 1)), its[Len(its)].price)

\* the percentage taken off instead of taken
calculateTipOfRemainder(s, p) ==
  RoundTenth(Div(Mul(s, Sub(Num(100), p)), Num(100)))

calculateTip(s, p) ==
  LET raw == Div(Mul(s, p), Num(100))
  IN RoundTenth(raw)

\* an array pushed to instead of a Set added to
RECURSIVE scanPersonsNoSet(_)
scanPersonsNoSet(its) ==
  IF its = <<>> THEN <<>>
  ELSE LET before == scanPersonsNoSet(SubSeq(its, 1, Len(its) - 1))
           it == its[Len(its)]
       IN IF it.isShared THEN before ELSE Append(before, it.person)

\* Set.add in a loop, then Array.from: insertion order, no duplicates
RECURSIVE scanPersons(_)
scanPersons(its) ==
  IF its = <<>> THEN <<>>
  ELSE LET before == scanPersons(SubSeq(its, 1, Len(its) - 1))
           it == its[Len(its)]
       IN IF it.isShared THEN before
          ELSE IF \E i \in 1..Len(before) : before[i] = it.person THEN before
          ELSE Append(before, it.person)

RECURSIVE personalOf(_, _)
personalOf(its, name) ==
  IF its = <<>> THEN Num(0)
  ELSE LET before == personalOf(SubSeq(its, 1, Len(its) - 1), name)
           it == its[Len(its)]
       IN IF ~it.isShared /\ it.person = name THEN Add(before, it.price)
          ELSE before

RECURSIVE sharedTotalOf(_)
sharedTotalOf(its) ==
  IF its = <<>> THEN Num(0)
  ELSE LET before == sharedTotalOf(SubSeq(its, 1, Len(its) - 1))
           it == its[Len(its)]
       IN IF it.isShared THEN Add(before, it.price) ELSE before

\* the shared items charged whole to every person
subTotalForPersonUnsplit(its, name, persons) ==
  Add(personalOf(its, name), sharedTotalOf(its))

\* lines 119-133: personal + sharedTotal / persons
subTotalForPerson(its, name, persons) ==
  LET personal == personalOf(its, name)
      sharedTotal == sharedTotalOf(its)
      share == Div(sharedTotal, Num(persons))
  IN Add(personal, share)

\* the tip split evenly, whatever each person's sub-total
personTipEven(its, tipPercentage, name, persons) ==
  Div(calculateTip(calculateSubTotal(its), tipPercentage), Num(persons))

\* lines 136-138
personTip(its, tipPercentage, name, persons) ==
  LET totalSub == calculateSubTotal(its)
      totalTip == calculateTip(totalSub, tipPercentage)
  IN IF totalSub = Num(0) THEN Num(0)
     ELSE Mul(totalTip, Div(subTotalForPerson(its, name, persons), totalSub))

\* the shared items split over the items instead of over the persons
calculatePersonAmountPerItem(its, tipPercentage, name, persons) ==
  LET personTotalRaw == Add(subTotalForPerson(its, name, Len(its)),
                            personTip(its, tipPercentage, name, Len(its)))
  IN RoundTenth(personTotalRaw)

calculatePersonAmount(its, tipPercentage, name, persons) ==
  LET personTotalRaw == Add(subTotalForPerson(its, name, persons),
                            personTip(its, tipPercentage, name, persons))
      amount == RoundTenth(personTotalRaw)
  IN amount

calculateItems(its, tipPercentage) ==
  LET names == scanPersons(its)
      persons == Len(names)
  IN [i \in 1..persons |->
        [name |-> names[i],
         amount |-> calculatePersonAmount(its, tipPercentage, names[i], persons)]]

RECURSIVE SumAmounts(_)
SumAmounts(pis) ==
  IF pis = <<>> THEN Num(0)
  ELSE Add(SumAmounts(SubSeq(pis, 1, Len(pis) - 1)), pis[Len(pis)].amount)

\* the difference given to the last person
adjustAmountLast(total, pis) ==
  LET sum == RoundTenth(SumAmounts(pis))
      target == RoundTenth(total)
      diff == RoundTenth(Sub(target, sum))
  IN IF Less(MathAbs(diff), Rat(1, 10000)) THEN [threw |-> FALSE, items |-> pis]
     ELSE IF pis = <<>> THEN [threw |-> TRUE, items |-> pis]
     ELSE [threw |-> FALSE,
           items |-> [pis EXCEPT ![Len(pis)].amount =
                                   RoundTenth(Add(pis[Len(pis)].amount, diff))]]

\* adjustAmount mutates items in place; writing items[0].amount of an empty
\* array throws a TypeError
adjustAmount(total, pis) ==
  LET sum == RoundTenth(SumAmounts(pis))
      target == RoundTenth(total)
      diff == RoundTenth(Sub(target, sum))
  IN IF Less(MathAbs(diff), Rat(1, 10000)) THEN [threw |-> FALSE, items |-> pis]
     ELSE IF pis = <<>> THEN [threw |-> TRUE, items |-> pis]
     ELSE [threw |-> FALSE,
           items |-> [pis EXCEPT ![1].amount = RoundTenth(Add(pis[1].amount, diff))]]

\* splitBill as one call: what it returns, or that it threw
splitBill(in) ==
  LET sub == calculateSubTotal(in.items)
      t == calculateTip(sub, in.tipPercentage)
      total == Add(sub, t)
      adjusted == adjustAmount(total, calculateItems(in.items, in.tipPercentage))
  IN [threw |-> adjusted.threw,
      value |-> [date |-> formatDate(in.date),
                 location |-> in.location,
                 subTotal |-> sub,
                 tip |-> t,
                 totalAmount |-> total,
                 items |-> adjusted.items]]

(***************************************************************************)
(* The inputs of the core.                                                 *)
(***************************************************************************)
Alice == <<"A", "l", "i", "c", "e">>

Bob == <<"B", "o", "b">>

Carol == <<"C", "a", "r", "o", "l">>

Persons == {Alice, Bob, Carol}

Prices == {Num(0), Rat(1, 20), Num(10)}

TipPercentages == {Num(0), Num(15)}

SharedBillItem(price) == [price |-> price, name |-> <<"P", "i", "z", "z", "a">>, isShared |-> TRUE]

PersonalBillItem(price, person) ==
  [price |-> price, name |-> <<"C", "o", "k", "e">>, isShared |-> FALSE,
   person |-> person]

ItemLists ==
  LET billItems == {SharedBillItem(p) : p \in Prices}
                     \cup {PersonalBillItem(p, who) : p \in Prices, who \in Persons}
  IN UNION {[1..k -> billItems] : k \in 1..MaxItems}

Pad2(k) == <<Digits[(k \div 10) + 1], Digits[(k % 10) + 1]>>

IsoDate(y, m, d) == y \o <<"-">> \o Pad2(m) \o <<"-">> \o Pad2(d)

IsoDates ==
  {IsoDate(y, m, d) : y \in {<<"2", "0", "2", "4">>, <<"0", "9", "9", "9">>},
                      m \in 1..12, d \in 1..31}

\* strings the validator lets through although they are no dates
MalformedDates ==
  {<<"a">>, <<"2", "0", "2", "4", "-", "3">>,
   <<"2", "0", "2", "4", "-", "-", "0", "5">>,
   <<"2", "0", "2", "4", "-", "a", "-", "1">>}

SampleDate == IsoDate(<<"2", "0", "2", "4">>, 3, 21)

BillInput(d, p, its) ==
  [date |-> d, location |-> <<"C", "a", "f", "e">>, tipPercentage |-> p,
   items |-> its]

BillInputs ==
  {BillInput(SampleDate, p, its) : p \in TipPercentages, its \in ItemLists}
    \cup {BillInput(d, Num(10), its) :
            d \in IsoDates \cup MalformedDates,
            its \in {<<SharedBillItem(Num(10)), PersonalBillItem(Num(10), Alice)>>,
                     <<SharedBillItem(Num(10))>>}}

(***************************************************************************)
(* JSON: values, texts (sequences of tokens), JSON.stringify, JSON.parse.  *)
(***************************************************************************)
JUndefined == [t |-> "undefined"]

JNull == [t |-> "null"]

JBool(b) == [t |-> "boolean", v |-> b]

JNum(x) == [t |-> "number", v |-> x]

JStr(chars) == [t |-> "string", v |-> chars]

JArr(elements) == [t |-> "array", v |-> elements]

Member(key, value) == [k |-> key, v |-> value]

JObj(members) == [t |-> "object", v |-> members]

\* obj[key] of a value that is not null or undefined
Get(j, key) ==
  IF j.t = "object" /\ \E i \in 1..Len(j.v) : j.v[i].k = key
  THEN j.v[CHOOSE i \in 1..Len(j.v) :
             j.v[i].k = key /\ \A m \in (i + 1)..Len(j.v) : j.v[m].k # key].v
  ELSE JUndefined

\* typeof
TypeOf(j) ==
  IF j.t \in {"null", "array", "object"} THEN "object" ELSE j.t

\* !value
Falsy(j) ==
  \/ j.t \in {"undefined", "null"}
  \/ j.t = "boolean" /\ ~j.v
  \/ j.t = "number" /\ (j.v = Num(0) \/ ~IsFinite(j.v))
  \/ j.t = "string" /\ j.v = <<>>

\* a token of a JSON text: a punctuation mark, a literal, white space ("ws"),
\* or with its characters a string ("str"), a number ("num"), a member's key
Tok(kind) == [k |-> kind, s |-> <<>>, key |-> ""]

RECURSIVE Pow10(_)
Pow10(k) == IF k = 0 THEN 1 ELSE 10 * Pow10(k - 1)

\* the digits after the decimal point, at most 17 of them
RECURSIVE FractionText(_, _, _)
FractionText(rem, d, k) ==
  IF rem = 0 \/ k = 0 THEN <<>>
  ELSE <<Digits[((10 * rem) \div d) + 1]>> \o FractionText((10 * rem) % d, d, k - 1)

\* a finite number as JSON.stringify writes it
NumberText(x) ==
  LET a == Abs(x.n)
  IN (IF x.n < 0 THEN <<"-">> ELSE <<>>)
       \o NatText(a \div x.d)
       \o (IF a % x.d = 0 THEN <<>> ELSE <<".">> \o FractionText(a % x.d, x.d, 17))

\* the number a JSON number literal spells
ParseNumber(chars) ==
  LET negative == chars # <<>> /\ chars[1] = "-"
      body == IF negative THEN Tail(chars) ELSE chars
      parts == Split(body, ".")
      whole == DigitsValue(parts[1])
      frac == IF Len(parts) > 1 THEN parts[2] ELSE <<>>
      scale == Pow10(Len(frac))
      magnitude == Rat(whole * scale + DigitsValue(frac), scale)
  IN IF negative THEN Sub(Num(0), magnitude) ELSE magnitude

RECURSIVE Stringify(_), StringifyElements(_), StringifyMembers(_)
\* JSON.stringify(value, null, 2), its white space left out
Stringify(j) ==
  CASE j.t = "null" -> <<Tok("null")>>
    [] j.t = "boolean" -> <<Tok(IF j.v THEN "true" ELSE "false")>>
    [] j.t = "number" ->
         IF IsFinite(j.v) THEN <<[Tok("num") EXCEPT !.s = NumberText(j.v)]>> ELSE <<Tok("null")>>
    [] j.t = "string" -> <<[Tok("str") EXCEPT !.s = j.v]>>
    [] j.t = "array" -> <<Tok("[")>> \o StringifyElements(j.v) \o <<Tok("]")>>
    [] j.t = "object" -> <<Tok("{")>> \o StringifyMembers(j.v) \o <<Tok("}")>>

StringifyElements(elements) ==
  IF elements = <<>> THEN <<>>
  ELSE IF Len(elements) = 1 THEN Stringify(elements[1])
  ELSE Stringify(elements[1]) \o <<Tok(",")>> \o StringifyElements(Tail(elements))

StringifyMembers(members) ==
  IF members = <<>> THEN <<>>
  ELSE LET first == <<[Tok("key") EXCEPT !.key = members[1].k], Tok(":")>> \o Stringify(members[1].v)
       IN IF Len(members) = 1 THEN first
          ELSE first \o <<Tok(",")>> \o StringifyMembers(Tail(members))

ParseFailed == [ok |-> FALSE, v |-> JNull, rest |-> <<>>]

Parsed(value, rest) == [ok |-> TRUE, v |-> value, rest |-> rest]

RECURSIVE ParseValue(_), ParseElements(_, _), ParseMembers(_, _)
ParseValue(toks) ==
  IF toks = <<>> THEN ParseFailed
  ELSE LET h == Head(toks)
           rest == Tail(toks)
       IN CASE h.k = "str" -> Parsed(JStr(h.s), rest)
            [] h.k = "num" -> Parsed(JNum(ParseNumber(h.s)), rest)
            [] h.k = "true" -> Parsed(JBool(TRUE), rest)
            [] h.k = "false" -> Parsed(JBool(FALSE), rest)
            [] h.k = "null" -> Parsed(JNull, rest)
            [] h.k = "[" ->
                 IF rest # <<>> /\ Head(rest).k = "]" THEN Parsed(JArr(<<>>), Tail(rest))
                 ELSE ParseElements(rest, <<>>)
            [] h.k = "{" ->
                 IF rest # <<>> /\ Head(rest).k = "}" THEN Parsed(JObj(<<>>), Tail(rest))
                 ELSE ParseMembers(rest, <<>>)
            [] OTHER -> ParseFailed

ParseElements(toks, acc) ==
  LET e == ParseValue(toks)
  IN IF ~e.ok \/ e.rest = <<>> THEN ParseFailed
     ELSE IF Head(e.rest).k = "," THEN ParseElements(Tail(e.rest), Append(acc, e.v))
     ELSE IF Head(e.rest).k = "]" THEN Parsed(JArr(Append(acc, e.v)), Tail(e.rest))
     ELSE ParseFailed

ParseMembers(toks, acc) ==
  IF Len(toks) < 3 \/ toks[1].k # "key" \/ toks[2].k # ":" THEN ParseFailed
  ELSE LET e == ParseValue(SubSeq(toks, 3, Len(toks)))
           member == Member(toks[1].key, e.v)
       IN IF ~e.ok \/ e.rest = <<>> THEN ParseFailed
          ELSE IF Head(e.rest).k = "," THEN ParseMembers(Tail(e.rest), Append(acc, member))
          ELSE IF Head(e.rest).k = "}"
            THEN Parsed(JObj(Append(acc, member)), Tail(e.rest))
          ELSE ParseFailed

\* data.trim()
Trim(text) == SelectSeq(text, LAMBDA tok : tok.k # "ws")

\* JSON.parse: the value, or a SyntaxError
JSONparse(text) ==
  LET r == ParseValue(Trim(text))
  IN IF r.ok /\ r.rest = <<>> THEN [ok |-> TRUE, v |-> r.v]
     ELSE [ok |-> FALSE, v |-> JNull]

(***************************************************************************)
(* The objects of core.ts as JSON values, and back.                        *)
(***************************************************************************)
BillItemJson(it) ==
  JObj(<<Member("name", JStr(it.name)), Member("price", JNum(it.price)),
         Member("isShared", JBool(it.isShared))>>
         \o (IF it.isShared THEN <<>> ELSE <<Member("person", JStr(it.person))>>))

BillInputJson(in) ==
  JObj(<<Member("date", JStr(in.date)),
         Member("location", JStr(in.location)),
         Member("tipPercentage", JNum(in.tipPercentage)),
         Member("items", JArr([i \in 1..Len(in.items) |-> BillItemJson(in.items[i])]))>>)

\* parsed as BillInput: the fields core.ts reads of a validated document
asBillInput(j) ==
  LET asBillItem(it) ==
        IF Get(it, "isShared").v
        THEN [price |-> Get(it, "price").v, name |-> Get(it, "name").v,
              isShared |-> TRUE]
        ELSE [price |-> Get(it, "price").v, name |-> Get(it, "name").v,
              isShared |-> FALSE, person |-> Get(it, "person").v]
  IN [date |-> Get(j, "date").v,
      location |-> Get(j, "location").v,
      tipPercentage |-> Get(j, "tipPercentage").v,
      items |-> [i \in 1..Len(Get(j, "items").v) |-> asBillItem(Get(j, "items").v[i])]]

BillOutputJson(out) ==
  LET personItem(pi) ==
        JObj(<<Member("name", JStr(pi.name)), Member("amount", JNum(pi.amount))>>)
  IN JObj(<<Member("date", JStr(out.date)),
            Member("location", JStr(out.location)),
            Member("subTotal", JNum(out.subTotal)),
            Member("tip", JNum(out.tip)),
            Member("totalAmount", JNum(out.totalAmount)),
            Member("items",
                   JArr([i \in 1..Len(out.items) |-> personItem(out.items[i])]))>>)

(***************************************************************************)
(* Paths and the file system.  A path is the sequence of its components,   *)
(* <<>> being the working directory ('.'), and as an argument the empty    *)
(* string; a component is the sequence of its characters.                  *)
(***************************************************************************)
DotJson == <<".", "j", "s", "o", "n">>

EndsWith(chars, suffix) ==
  /\ Len(chars) >= Len(suffix)
  /\ SubSeq(chars, Len(chars) - Len(suffix) + 1, Len(chars)) = suffix

\* String.prototype.toLowerCase, on the letters of the names of the runs
toLowerCase(chars) ==
  LET lower(c) == CASE c = "A" -> "a" [] c = "J" -> "j" [] c = "S" -> "s"
                    [] c = "O" -> "o" [] c = "N" -> "n" [] OTHER -> c
  IN [i \in 1..Len(chars) |-> lower(chars[i])]

\* path.extname: from the last dot of the last component, a leading dot not counting
extname(path) ==
  LET base == IF path = <<>> THEN <<>> ELSE path[Len(path)]
      dots == {i \in 2..Len(base) : base[i] = "."}
  IN IF dots = {} THEN <<>>
     ELSE SubSeq(base, CHOOSE i \in dots : \A j \in dots : j <= i, Len(base))

\* path.dirname
dirname(path) == IF path = <<>> THEN <<>> ELSE SubSeq(path, 1, Len(path) - 1)

\* path.join(dir, file)
join(dir, file) == Append(dir, file)

\* the characters of a path as the messages show it
RECURSIVE PathText(_)
PathText(path) ==
  IF path = <<>> THEN <<>>
  ELSE IF Len(path) = 1 THEN path[1]
  ELSE PathText(SubSeq(path, 1, Len(path) - 1)) \o <<"/">> \o path[Len(path)]

FileNode(text, r, w) == [kind |-> "file", text |-> text, r |-> r, w |-> w]

DirNode(r, w) == [kind |-> "dir", text |-> <<>>, r |-> r, w |-> w]

\* neither a file nor a directory (a pipe, a socket)
OtherNode == [kind |-> "other", text |-> <<>>, r |-> TRUE, w |-> TRUE]

Exists(f, path) == path \in DOMAIN f.nodes

\* a component of the way to the path is no directory
BlockedBy(f, path) ==
  \E k \in 0..(Len(path) - 1) :
    /\ Exists(f, SubSeq(path, 1, k))
    /\ f.nodes[SubSeq(path, 1, k)].kind # "dir"

\* fsPromises.access: "" when granted, else the error code
access(f, path, mode) ==
  IF BlockedBy(f, path) THEN "ENOTDIR"
  ELSE IF ~Exists(f, path) THEN "ENOENT"
  ELSE IF mode = "R_OK" /\ ~f.nodes[path].r THEN "EACCES"
  ELSE IF mode = "W_OK" /\ ~f.nodes[path].w THEN "EACCES"
  ELSE ""

\* fsPromises.mkdir(path, { recursive: true })
mkdir(f, path) ==
  IF BlockedBy(f, path) THEN [code |-> "ENOTDIR", fs |-> f]
  ELSE IF Exists(f, path)
    THEN [code |-> IF f.nodes[path].kind = "dir" THEN "" ELSE "EEXIST", fs |-> f]
  ELSE LET missing == {SubSeq(path, 1, k) : k \in 1..Len(path)} \ DOMAIN f.nodes
           anchor == CHOOSE q \in DOMAIN f.nodes :
                       /\ \E k \in 0..Len(path) : q = SubSeq(path, 1, k)
                       /\ \A m \in missing : Len(q) < Len(m)
                       /\ \A k \in (Len(q) + 1)..Len(path) : SubSeq(path, 1, k) \in missing
       IN IF ~f.nodes[anchor].w THEN [code |-> "EACCES", fs |-> f]
          ELSE [code |-> "",
                fs |-> [f EXCEPT !.nodes =
                          [q \in DOMAIN f.nodes \cup missing |->
                             IF q \in missing THEN DirNode(TRUE, TRUE) ELSE f.nodes[q]]]]

\* fsPromises.readFile(path, 'utf-8')
readFile(f, path) ==
  IF BlockedBy(f, path) THEN [code |-> "ENOTDIR", text |-> <<>>]
  ELSE IF ~Exists(f, path) THEN [code |-> "ENOENT", text |-> <<>>]
  ELSE IF f.nodes[path].kind = "dir" THEN [code |-> "EISDIR", text |-> <<>>]
  ELSE IF ~f.nodes[path].r THEN [code |-> "EACCES", text |-> <<>>]
  ELSE [code |-> "", text |-> f.nodes[path].text]

\* fsPromises.writeFile(path, text, 'utf-8').  On a full disk the file may have
\* been created or emptied (truncated) before the write fails.
writeFile(f, path, text, truncated) ==
  LET put(content) ==
        [f EXCEPT !.nodes =
           [q \in DOMAIN f.nodes \cup {path} |->
              IF q # path THEN f.nodes[q]
              ELSE IF Exists(f, path) THEN [f.nodes[path] EXCEPT !.text = content]
              ELSE FileNode(content, TRUE, TRUE)]]
  IN
  IF BlockedBy(f, path) THEN [code |-> "ENOTDIR", fs |-> f]
  ELSE IF ~Exists(f, dirname(path)) THEN [code |-> "ENOENT", fs |-> f]
  ELSE IF Exists(f, path) /\ f.nodes[path].kind = "dir" THEN [code |-> "EISDIR", fs |-> f]
  ELSE IF Exists(f, path) /\ ~f.nodes[path].w THEN [code |-> "EACCES", fs |-> f]
  ELSE IF ~Exists(f, path) /\ ~f.nodes[dirname(path)].w THEN [code |-> "EACCES", fs |-> f]
  ELSE IF f.full
    THEN [code |-> "ENOSPC", fs |-> IF truncated THEN put(<<>>) ELSE f]
  ELSE [code |-> "", fs |-> put(text)]

\* the names of the files and directories of the runs
Name ==
  [input |-> <<"i", "n">>,
   output |-> <<"o", "u", "t">>,
   result |-> <<"r">> \o DotJson,
   notes |-> <<"n", ".", "t", "x", "t">>,
   upper |-> <<"A", ".", "J", "S", "O", "N">>]

JsonName(i) == <<<<"a", "b", "c", "d", "e", "f">>[i]>> \o DotJson

\* the names a directory can hold, in the order readdir lists them
AllNames ==
  [i \in 1..(MaxFiles + 1) |-> JsonName(i)]
    \o <<DotJson, Name.upper, Name.notes, Name.result, Name.output, Name.input>>

\* fsPromises.readdir
readdir(f, dir) == SelectSeq(AllNames, LAMBDA name : Exists(f, join(dir, name)))

(***************************************************************************)
(* Errors: a message (fixed phrases, and the characters of the paths put   *)
(* into it) and a code.  The phrases are written in English; the comment   *)
(* before each gives the text of the source.                               *)
(***************************************************************************)
Error(message) == [message |-> message, code |-> ""]

NoError == [message |-> <<>>, code |-> "none"]

Failed(e) == e.code # "none"

\* The phrases of the messages of processor.ts and of the errors it passes on;
\* the comment beside each gives the text of the source.
Phrase ==
  [MissingArguments |->
     "missing command line arguments",  \* 缺少必要的命令列參數
   ParseArgsFailed |->
     "error while parsing the command line arguments: ",  \* 解析命令列參數時發生錯誤:
   InputRequired |->
     "the --input argument must be given",  \* 必須提供 --input 參數
   OutputRequired |->
     "the --output argument must be given",  \* 必須提供 --output 參數
   InputNotFound |->
     "input file or directory does not exist: ",  \* 輸入檔案或目錄不存在:
   InputNotReadable |->
     "no permission to read the input file or directory: ",  \* 沒有權限讀取輸入檔案或目錄:
   ValidateInputFailed |->
     "error while validating the input path: ",  \* 驗證輸入路徑時發生錯誤:
   OutputNotWritable |->
     "no permission to write the output path: ",  \* 沒有權限寫入輸出路徑:
   OutputInvalidDirectory |->
     "the output path holds an invalid directory: ",  \* 輸出路徑包含無效的目錄:
   ValidateOutputFailed |->
     "error while validating the output path: ",  \* 驗證輸出路徑時發生錯誤:
   UnsupportedInputType |->
     "unsupported input type: ",  \* 不支援的輸入類型:
   UnsupportedFileFormat |->
     "unsupported file format: ",  \* 不支援的檔案格式:
   OnlyJsonSupported |->
     ", only JSON files are supported",  \* ，僅支援 JSON 檔案
   FileNotFound |->
     "file does not exist: ",  \* 檔案不存在:
   FileNotReadable |->
     "no permission to read the file: ",  \* 沒有權限讀取檔案:
   PathIsDirectory |->
     "the path is a directory, not a file: ",  \* 指定的路徑是目錄而非檔案:
   ReadFailed |->
     "error while reading the file: ",  \* 讀取檔案時發生錯誤:
   EmptyContent |->
     "the file content is empty: ",  \* 檔案內容為空:
   JsonSyntaxInFile |->
     "JSON format error in file ",  \* JSON 格式錯誤在檔案
   JsonValidationInFile |->
     "error while validating the JSON format in file ",  \* 驗證 JSON 格式時發生錯誤在檔案
   RootNotObject |->
     "JSON format error: the root must be an object",  \* JSON 格式錯誤：根對象必須是一個物件
   ItemsMissingOrEmpty |->
     "missing or invalid field 'items', it must be a non-empty array",  \* 缺少或無效的 'items' 欄位，必須是非空陣列
   ItemNumber |->
     "item ",  \* 項目 N
   PersonalItemNumber |->
     "personal item ",  \* 個人項目 N
   CoreFailed |->
     "core computation error: ",  \* 核心計算邏輯錯誤:
   FileNotWritable |->
     "no permission to write the file: ",  \* 沒有權限寫入檔案:
   DiskFull |->
     "not enough disk space to write the file: ",  \* 磁碟空間不足，無法寫入檔案:
   WriteFailed |->
     "error while writing the file: ",  \* 寫入檔案時發生錯誤:
   ProcessingFile |->
     "processing file ",  \* 處理檔案
   CannotCreateOutputDir |->
     "cannot create the output directory ",  \* 無法創建輸出目錄
   SyntaxErrorMessage |->
     "Unexpected token in JSON",  \* what JSON.parse says of a text that is no JSON
   NullPropertyMessage |->
     "Cannot read properties of null (reading 'name')",  \* the TypeError of reading a property of null
   UndefinedPropertyMessage |->
     "Cannot set properties of undefined (setting 'amount')"]  \* the TypeError of adjustAmount writing items[0].amount of an empty array

\* 缺少或無效的 '...' 欄位 with the field named
MissingOrInvalid(field) == <<"missing or invalid field '", field, "'">>

\* 批次處理完全失敗：N 個檔案都處理失敗
AllFilesFailed(n) == <<"batch processing failed completely: ">> \o NatText(n)
                       \o <<" files all failed">>

\* an error of the file system API, as Node words it
NodeError(code, syscall, path) ==
  [message |-> <<code, ": ", syscall, " '">> \o PathText(path) \o <<"'">>,
   code |-> code]

(***************************************************************************)
(* processor.ts, function by function.                                     *)
(***************************************************************************)
Arg(flag, value) == [flag |-> flag, value |-> value]

\* a value of blanks only
BlankPath == <<<<" ">>>>

\* the last arg.substring(n).trim() of the arguments that start with the flag,
\* '' when there is none
RECURSIVE LastValue(_, _)
LastValue(argv, flag) ==
  IF argv = <<>> THEN <<>>
  ELSE IF argv[Len(argv)].flag = flag
    THEN (IF argv[Len(argv)].value = BlankPath THEN <<>> ELSE argv[Len(argv)].value)
  ELSE LastValue(SubSeq(argv, 1, Len(argv) - 1), flag)

\* lines 50-95
parseArgs(argv) ==
  LET inputPath == LastValue(argv, "--input=")
      outputPath == LastValue(argv, "--output=")
      wrap(phrase) == Error(<<Phrase.ParseArgsFailed, phrase>>)
  IN IF inputPath = <<>>
       THEN [error |-> wrap(Phrase.InputRequired), inputPath |-> <<>>, outputPath |-> <<>>]
     ELSE IF outputPath = <<>>
       THEN [error |-> wrap(Phrase.OutputRequired), inputPath |-> <<>>, outputPath |-> <<>>]
     ELSE [error |-> NoError, inputPath |-> inputPath, outputPath |-> outputPath]

\* validateInputPath without its ENOENT branch
validateInputPathAnyCode(f, inputPath) ==
  LET exists == access(f, inputPath, "F_OK")
      code == IF exists # "" THEN exists ELSE access(f, inputPath, "R_OK")
  IN IF code = "" THEN NoError
     ELSE IF code = "EACCES"
       THEN Error(<<Phrase.InputNotReadable>> \o PathText(inputPath))
     ELSE Error(<<Phrase.ValidateInputFailed>>
                  \o NodeError(code, "access", inputPath).message)

\* lines 299-321
validateInputPath(f, inputPath) ==
  LET exists == access(f, inputPath, "F_OK")
      code == IF exists # "" THEN exists ELSE access(f, inputPath, "R_OK")
  IN IF code = "" THEN NoError
     ELSE IF code = "ENOENT"
       THEN Error(<<Phrase.InputNotFound>> \o PathText(inputPath))
     ELSE IF code = "EACCES"
       THEN Error(<<Phrase.InputNotReadable>> \o PathText(inputPath))
     ELSE Error(<<Phrase.ValidateInputFailed>>
                  \o NodeError(code, "access", inputPath).message)

\* lines 327-355
validateOutputPath(f, outputPath) ==
  LET outputDir == dirname(outputPath)
      made == mkdir(f, outputDir)
      writable == access(made.fs, outputDir, "W_OK")
      exists == access(made.fs, outputPath, "F_OK")
      code == IF made.code # "" THEN made.code
              ELSE IF writable # "" THEN writable
              ELSE IF exists = "ENOENT" THEN ""
              ELSE IF exists # "" THEN exists
              ELSE access(made.fs, outputPath, "W_OK")
      syscall == IF made.code # "" THEN "mkdir" ELSE "access"
  IN [fs |-> made.fs,
      error |->
        IF code = "" THEN NoError
        ELSE IF code = "EACCES"
          THEN Error(<<Phrase.OutputNotWritable>> \o PathText(outputPath))
        ELSE IF code = "ENOTDIR"
          THEN Error(<<Phrase.OutputInvalidDirectory>> \o PathText(outputPath))
        ELSE Error(<<Phrase.ValidateOutputFailed>>
                     \o NodeError(code, syscall, outputPath).message)]

\* lines 362-378
readFileWithValidation(f, filePath) ==
  LET got == readFile(f, filePath)
  IN [text |-> got.text,
      error |->
        IF got.code = "" THEN NoError
        ELSE IF got.code = "ENOENT"
          THEN Error(<<Phrase.FileNotFound>> \o PathText(filePath))
        ELSE IF got.code = "EACCES"
          THEN Error(<<Phrase.FileNotReadable>> \o PathText(filePath))
        ELSE IF got.code = "EISDIR"
          THEN Error(<<Phrase.PathIsDirectory>> \o PathText(filePath))
        ELSE Error(<<Phrase.ReadFailed>> \o PathText(filePath) \o <<" - ">>
                     \o NodeError(got.code, "open", filePath).message)]

\* the price of an item is not checked for its sign
ItemFaultAnyPrice(item, i) ==
  IF item.t = "null" THEN <<Phrase.NullPropertyMessage>>
  ELSE IF Falsy(Get(item, "name")) \/ TypeOf(Get(item, "name")) # "string"
    THEN <<Phrase.ItemNumber>> \o NatText(i) \o <<" ">> \o MissingOrInvalid("name")
  ELSE IF TypeOf(Get(item, "price")) # "number"
    THEN <<Phrase.ItemNumber>> \o NatText(i) \o <<" ">> \o MissingOrInvalid("price")
  ELSE IF TypeOf(Get(item, "isShared")) # "boolean"
    THEN <<Phrase.ItemNumber>> \o NatText(i) \o <<" ">> \o MissingOrInvalid("isShared")
  ELSE IF ~Get(item, "isShared").v
            /\ (Falsy(Get(item, "person")) \/ TypeOf(Get(item, "person")) # "string")
    THEN <<Phrase.PersonalItemNumber>> \o NatText(i) \o <<" ">> \o MissingOrInvalid("person")
  ELSE <<>>

\* the first complaint of lines 416-432 about item i, <<>> when there is none
ItemFault(item, i) ==
  IF item.t = "null" THEN <<Phrase.NullPropertyMessage>>
  ELSE IF Falsy(Get(item, "name")) \/ TypeOf(Get(item, "name")) # "string"
    THEN <<Phrase.ItemNumber>> \o NatText(i) \o <<" ">> \o MissingOrInvalid("name")
  ELSE IF TypeOf(Get(item, "price")) # "number" \/ Less(Get(item, "price").v, Num(0))
    THEN <<Phrase.ItemNumber>> \o NatText(i) \o <<" ">> \o MissingOrInvalid("price")
  ELSE IF TypeOf(Get(item, "isShared")) # "boolean"
    THEN <<Phrase.ItemNumber>> \o NatText(i) \o <<" ">> \o MissingOrInvalid("isShared")
  ELSE IF ~Get(item, "isShared").v
            /\ (Falsy(Get(item, "person")) \/ TypeOf(Get(item, "person")) # "string")
    THEN <<Phrase.PersonalItemNumber>> \o NatText(i) \o <<" ">> \o MissingOrInvalid("person")
  ELSE <<>>

\* the first complaint of lines 394-432 about the parsed value, <<>> when none
DocumentFault(parsed) ==
  IF TypeOf(parsed) # "object" \/ parsed.t = "null" THEN <<Phrase.RootNotObject>>
  ELSE IF Falsy(Get(parsed, "date")) \/ TypeOf(Get(parsed, "date")) # "string"
    THEN MissingOrInvalid("date")
  ELSE IF Falsy(Get(parsed, "location")) \/ TypeOf(Get(parsed, "location")) # "string"
    THEN MissingOrInvalid("location")
  ELSE IF TypeOf(Get(parsed, "tipPercentage")) # "number"
            \/ Less(Get(parsed, "tipPercentage").v, Num(0))
    THEN MissingOrInvalid("tipPercentage")
  ELSE IF Get(parsed, "items").t # "array" \/ Len(Get(parsed, "items").v) = 0
    THEN <<Phrase.ItemsMissingOrEmpty>>
  ELSE LET its == Get(parsed, "items").v
           bad == {i \in 1..Len(its) : ItemFault(its[i], i) # <<>>}
       IN IF bad = {} THEN <<>>
          ELSE LET i == CHOOSE b \in bad : \A c \in bad : b <= c
               IN ItemFault(its[i], i)

\* lines 386-442: the parsed document, or the error thrown
parseAndValidateJSON(data, filePath) ==
  LET wrapped(reason) ==
        Error(<<Phrase.JsonValidationInFile>> \o PathText(filePath) \o <<": ">> \o reason)
      parsed == JSONparse(data)
  IN IF Trim(data) = <<>>
       THEN [error |-> wrapped(<<Phrase.EmptyContent>> \o PathText(filePath)), value |-> JNull]
     ELSE IF ~parsed.ok
       THEN [error |-> Error(<<Phrase.JsonSyntaxInFile>> \o PathText(filePath) \o <<": ">>
                               \o <<Phrase.SyntaxErrorMessage>>),
             value |-> JNull]
     ELSE IF DocumentFault(parsed.v) # <<>>
       THEN [error |-> wrapped(DocumentFault(parsed.v)), value |-> JNull]
     ELSE [error |-> NoError, value |-> parsed.v]

\* lines 449-471
writeFileWithValidation(f, filePath, data, truncated) ==
  LET made == mkdir(f, dirname(filePath))
      outputData == Stringify(data)
      wrote == IF made.code # "" THEN made
               ELSE writeFile(made.fs, filePath, outputData, truncated)
      syscall == IF made.code # "" THEN "mkdir" ELSE "open"
  IN [fs |-> wrote.fs,
      error |->
        IF wrote.code = "" THEN NoError
        ELSE IF wrote.code = "EACCES"
          THEN Error(<<Phrase.FileNotWritable>> \o PathText(filePath))
        ELSE IF wrote.code = "ENOSPC"
          THEN Error(<<Phrase.DiskFull>> \o PathText(filePath))
        ELSE IF wrote.code = "ENOTDIR"
          THEN Error(<<Phrase.OutputInvalidDirectory>> \o PathText(filePath))
        ELSE Error(<<Phrase.WriteFailed>> \o PathText(filePath) \o <<" - ">>
                     \o NodeError(wrote.code, syscall, filePath).message)]

\* the error of processSingleFile with the context alone
detailedErrorContextOnly(inputPath, e) ==
  Error(<<Phrase.ProcessingFile>> \o PathText(inputPath))

\* lines 145-161: the error processSingleFile throws for the one it caught
detailedError(inputPath, e) ==
  Error(<<Phrase.ProcessingFile>> \o PathText(inputPath) \o <<": ">> \o e.message)

(***************************************************************************)
(* cli.ts.                                                                 *)
(***************************************************************************)
\* The texts that messages are searched for.  A message is a sequence of
\* phrases and of the characters of paths: a text is found in a phrase whose
\* source text holds it (atoms), or spelled out by characters (chars; only
\* 'json' can be spelled by the paths of the runs).  The first eight are the
\* texts of handleCLIError, the others those the tests look for.
Needle ==
  [mustBeGiven |->  \* 必須提供
     [atoms |-> {Phrase.InputRequired, Phrase.OutputRequired}, chars |-> <<>>],
   argument |->  \* 參數
     [atoms |-> {Phrase.MissingArguments, Phrase.ParseArgsFailed, Phrase.InputRequired,
                 Phrase.OutputRequired},
      chars |-> <<>>],
   doesNotExist |->  \* 不存在
     [atoms |-> {Phrase.InputNotFound, Phrase.FileNotFound}, chars |-> <<>>],
   enoent |->  \* the code that opens the message of a file system error
     [atoms |-> {"ENOENT"}, chars |-> <<>>],
   permission |->  \* 權限
     [atoms |-> {Phrase.InputNotReadable, Phrase.OutputNotWritable,
                 Phrase.FileNotReadable, Phrase.FileNotWritable},
      chars |-> <<>>],
   eacces |-> [atoms |-> {"EACCES"}, chars |-> <<>>],
   json |->
     [atoms |-> {Phrase.OnlyJsonSupported, Phrase.JsonSyntaxInFile,
                 Phrase.JsonValidationInFile, Phrase.RootNotObject,
                 Phrase.SyntaxErrorMessage},
      chars |-> <<"j", "s", "o", "n">>],
   format |->  \* 格式
     [atoms |-> {Phrase.UnsupportedFileFormat, Phrase.JsonSyntaxInFile,
                 Phrase.JsonValidationInFile, Phrase.RootNotObject},
      chars |-> <<>>],
   inputDoesNotExist |->  \* 輸入檔案或目錄不存在
     [atoms |-> {Phrase.InputNotFound}, chars |-> <<>>],
   inputAndOutputRequired |->  \* 必須提供 --input 和 --output 參數: in no message
     [atoms |-> {}, chars |-> <<>>],
   contentIsEmpty |->  \* 檔案內容為空
     [atoms |-> {Phrase.EmptyContent}, chars |-> <<>>],
   jsonFormatError |->  \* JSON 格式錯誤
     [atoms |-> {Phrase.JsonSyntaxInFile, Phrase.RootNotObject}, chars |-> <<>>],
   missingOrInvalid |->  \* 缺少或無效的
     [atoms |-> {MissingOrInvalid("")[1], Phrase.ItemsMissingOrEmpty}, chars |-> <<>>]]

\* String.prototype.includes
includes(message, needle) ==
  \/ \E i \in 1..Len(message) : message[i] \in needle.atoms
  \/ /\ needle.chars # <<>>
     /\ \E i \in 1..Len(message) :
          /\ i + Len(needle.chars) - 1 <= Len(message)
          /\ SubSeq(message, i, i + Len(needle.chars) - 1) = needle.chars

\* lines 18-59: the exit code for the error main rejected with
handleCLIError(error) ==
  IF error.message # <<>>
    THEN LET message == toLowerCase(error.message)
         IN IF includes(message, Needle.mustBeGiven) \/ includes(message, Needle.argument)
              THEN 2
            ELSE IF includes(message, Needle.doesNotExist)
                    \/ includes(message, Needle.enoent)
              THEN 3
            ELSE IF includes(message, Needle.permission)
                    \/ includes(message, Needle.eacces)
              THEN 4
            ELSE IF includes(message, Needle.json) \/ includes(message, Needle.format)
              THEN 5
            ELSE 1
  ELSE 99

(***************************************************************************)
(* The runs of main: command lines and file systems.                       *)
(***************************************************************************)
Entry(path, node) == [path |-> path, node |-> node]

\* the file system holding the entries under a writable working directory;
\* of two entries for a path the later one counts
FileSystem(entries, full) ==
  LET all == <<Entry(<<>>, DirNode(TRUE, TRUE))>> \o entries
      last(q) == CHOOSE i \in 1..Len(all) :
                   all[i].path = q /\ \A j \in (i + 1)..Len(all) : all[j].path # q
  IN [nodes |-> [q \in {all[i].path : i \in 1..Len(all)} |-> all[last(q)].node],
      full |-> full]

ValidBillList ==
  <<BillInput(SampleDate, Num(10),
              <<SharedBillItem(Num(10)), PersonalBillItem(Num(10), Alice)>>),
    BillInput(SampleDate, Num(10), <<SharedBillItem(Num(10))>>),
    BillInput(SampleDate, Num(15),
              <<PersonalBillItem(Rat(1, 20), Alice), PersonalBillItem(Rat(1, 20), Bob),
                SharedBillItem(Num(10))>>)>>

SampleDocument == BillInputJson(ValidBillList[1])

SampleItem == BillItemJson(PersonalBillItem(Num(10), Alice))

\* the object with one member replaced, or left out
With(doc, key, value) ==
  JObj([i \in 1..Len(doc.v) |-> IF doc.v[i].k = key THEN Member(key, value) ELSE doc.v[i]])

Without(doc, key) == JObj(SelectSeq(doc.v, LAMBDA m : m.k # key))

\* the sample document with the item as its second
WithItem(item) ==
  With(SampleDocument, "items", JArr(<<Get(SampleDocument, "items").v[1], item>>))

\* documents that parse and are no bills
InvalidDocumentList ==
  <<JArr(<<>>), JNull, JNum(Num(5)),
    Without(SampleDocument, "date"),
    With(SampleDocument, "date", JNum(Num(2024))),
    With(SampleDocument, "date", JStr(<<>>)),
    Without(SampleDocument, "location"),
    With(SampleDocument, "location", JStr(<<>>)),
    With(SampleDocument, "tipPercentage", JNum(Num(-5))),
    With(SampleDocument, "tipPercentage", JStr(<<"1", "0">>)),
    Without(SampleDocument, "tipPercentage"),
    Without(SampleDocument, "items"),
    With(SampleDocument, "items", JArr(<<>>)),
    With(SampleDocument, "items", JObj(<<>>)),
    WithItem(JNull),
    WithItem(JStr(<<"x">>)),
    WithItem(With(SampleItem, "name", JStr(<<>>))),
    WithItem(Without(SampleItem, "name")),
    WithItem(With(SampleItem, "price", JNum(Rat(-1, 20)))),
    WithItem(With(SampleItem, "price", JStr(<<"1", "0">>))),
    WithItem(Without(SampleItem, "isShared")),
    WithItem(With(SampleItem, "isShared", JStr(<<"t", "r", "u", "e">>))),
    WithItem(Without(SampleItem, "person")),
    WithItem(With(SampleItem, "person", JStr(<<>>)))>>

\* texts that are no JSON: empty, blank, cut short, with a token too many
BrokenTextList ==
  LET sample == Stringify(SampleDocument)
  IN <<<<>>, <<Tok("ws")>>, SubSeq(sample, 1, Len(sample) - 1),
       sample \o <<Tok("}")>>, <<Tok("{"), Tok("{")>>>>

\* what a file given to main can hold
FileTexts ==
  [i \in 1..Len(ValidBillList) |-> Stringify(BillInputJson(ValidBillList[i]))]
    \o <<<<Tok("ws")>> \o Stringify(SampleDocument) \o <<Tok("ws")>>>>
    \o [i \in 1..Len(InvalidDocumentList) |-> Stringify(InvalidDocumentList[i])]
    \o BrokenTextList

StaleText == <<Tok("{"), Tok("}")>>

\* the input of a run on one file: its path, and what is there
SingleInput(kind, text) ==
  CASE kind = "json" ->
         [path |-> <<JsonName(1)>>,
          entries |-> <<Entry(<<JsonName(1)>>, FileNode(text, TRUE, TRUE))>>]
    [] kind = "unreadable" ->
         [path |-> <<JsonName(1)>>,
          entries |-> <<Entry(<<JsonName(1)>>, FileNode(text, FALSE, TRUE))>>]
    [] kind = "absent" -> [path |-> <<JsonName(1)>>, entries |-> <<>>]
    [] kind = "upper" ->
         [path |-> <<Name.upper>>,
          entries |-> <<Entry(<<Name.upper>>, FileNode(text, TRUE, TRUE))>>]
    [] kind = "txt" ->
         [path |-> <<Name.notes>>,
          entries |-> <<Entry(<<Name.notes>>, FileNode(text, TRUE, TRUE))>>]
    [] kind = "underFile" ->
         [path |-> <<Name.notes, JsonName(1)>>,
          entries |-> <<Entry(<<Name.notes>>, FileNode(text, TRUE, TRUE))>>]
    [] kind = "other" ->
         [path |-> <<Name.input>>, entries |-> <<Entry(<<Name.input>>, OtherNode)>>]

\* the output of a run on one file: its path, and what is there before the run
SingleOutput(kind, inputPath) ==
  CASE kind = "newDir" -> [path |-> <<Name.output, Name.result>>, entries |-> <<>>]
    [] kind = "cwd" -> [path |-> <<Name.result>>, entries |-> <<>>]
    [] kind = "same" -> [path |-> inputPath, entries |-> <<>>]
    [] kind = "overwrite" ->
         [path |-> <<Name.output, Name.result>>,
          entries |-> <<Entry(<<Name.output>>, DirNode(TRUE, TRUE)),
                        Entry(<<Name.output, Name.result>>,
                              FileNode(StaleText, TRUE, TRUE))>>]
    [] kind = "readOnlyFile" ->
         [path |-> <<Name.result>>,
          entries |-> <<Entry(<<Name.result>>, FileNode(StaleText, TRUE, FALSE))>>]
    [] kind = "directory" ->
         [path |-> <<Name.output>>,
          entries |-> <<Entry(<<Name.output>>, DirNode(TRUE, TRUE))>>]
    [] kind = "underFile" ->
         [path |-> <<Name.output, Name.result>>,
          entries |-> <<Entry(<<Name.output>>, FileNode(StaleText, TRUE, TRUE))>>]
    [] kind = "readOnlyDir" ->
         [path |-> <<Name.output, Name.result>>,
          entries |-> <<Entry(<<Name.output>>, DirNode(TRUE, FALSE))>>]

\* main called on one file
SingleRun(inputKind, text, outputKind, full) ==
  LET in == SingleInput(inputKind, text)
      out == SingleOutput(outputKind, in.path)
  IN [args |-> <<Arg("--input=", in.path), Arg("--output=", out.path)>>,
      fs |-> FileSystem(out.entries \o in.entries, full)]

\* what an entry of the input directory named x.json can be: a bill, a bill
\* without a personal item, a document that is no bill, a text that is no JSON,
\* a file that cannot be read, a directory
BatchEntryNodes ==
  <<FileNode(FileTexts[1], TRUE, TRUE),
    FileNode(FileTexts[2], TRUE, TRUE),
    FileNode(Stringify(WithItem(With(SampleItem, "price", JNum(Rat(-1, 20))))), TRUE, TRUE),
    FileNode(BrokenTextList[3], TRUE, TRUE),
    FileNode(FileTexts[1], FALSE, TRUE),
    DirNode(TRUE, TRUE)>>

\* the output of a run on a directory: its path, and what is there before
BatchOutput(kind) ==
  CASE kind \in {"absent", "full"} -> [path |-> <<Name.output>>, entries |-> <<>>]
    [] kind = "same" -> [path |-> <<Name.input>>, entries |-> <<>>]
    [] kind = "empty" ->
         [path |-> <<Name.output>>,
          entries |-> <<Entry(<<Name.output>>, DirNode(TRUE, TRUE))>>]
    [] kind = "stale" ->
         [path |-> <<Name.output>>,
          entries |-> <<Entry(<<Name.output>>, DirNode(TRUE, TRUE)),
                        Entry(<<Name.output, JsonName(1)>>,
                              FileNode(StaleText, TRUE, TRUE))>>]
    [] kind = "file" ->
         [path |-> <<Name.output>>,
          entries |-> <<Entry(<<Name.output>>, FileNode(StaleText, TRUE, TRUE))>>]
    [] kind = "readOnly" ->
         [path |-> <<Name.output>>,
          entries |-> <<Entry(<<Name.output>>, DirNode(TRUE, FALSE))>>]

\* main called on a directory: its x.json entries are the nodes, with one more
\* entry, holding a bill, unless its name is empty; on a full disk for output
\* kind "full"
BatchRun(nodes, other, outputKind) ==
  [args |-> <<Arg("--input=", <<Name.input>>),
              Arg("--output=", BatchOutput(outputKind).path)>>,
   fs |-> FileSystem(
            <<Entry(<<Name.input>>, DirNode(TRUE, TRUE))>>
              \o [i \in 1..Len(nodes) |-> Entry(<<Name.input, JsonName(i)>>, nodes[i])]
              \o (IF other = <<>> THEN <<>>
                  ELSE <<Entry(<<Name.input, other>>, FileNode(FileTexts[1], TRUE, TRUE))>>)
              \o BatchOutput(outputKind).entries,
            outputKind = "full")]

\* main called on a command line that is not one --input and one --output
OddRuns ==
  LET in == Arg("--input=", <<JsonName(1)>>)
      out == Arg("--output=", <<Name.result>>)
      other == Arg("--verbose", <<>>)
      files == FileSystem(<<Entry(<<JsonName(1)>>, FileNode(FileTexts[1], TRUE, TRUE))>>,
                          FALSE)
  IN {[args |-> argv, fs |-> files] :
        argv \in {<<>>, <<in>>, <<in, other>>, <<other, out>>, <<other, other>>,
                  <<Arg("--input=", <<>>), out>>, <<Arg("--input=", BlankPath), out>>,
                  <<in, Arg("--output=", <<>>)>>, <<in, Arg("--output=", BlankPath)>>,
                  <<Arg("--input=", <<Name.notes>>), in, out>>,
                  <<out, other, in>>,
                  <<in, out, Arg("--input=", <<>>)>>,
                  <<Arg("--input=", <<>>), Arg("--output=", <<>>)>>,
                  <<other, other, Arg("--input=", <<>>), out>>,
                  <<other, other, Arg("--input=", <<>>), Arg("--output=", <<>>)>>,
                  <<other, other, in, out>>}}

\* no function of processor.ts has been entered
NoFrames ==
  /\ mainFrame = [inputPath |-> <<>>, outputPath |-> <<>>]
  /\ singleFrame = [inputPath |-> <<>>, outputPath |-> <<>>, inputData |-> <<>>,
                    billInput |-> JNull, billOutput |-> JNull, caller |-> "none"]
  /\ batchFrame = [files |-> <<>>, jsonFiles |-> <<>>, index |-> 0, successCount |-> 0,
                   errorCount |-> 0, processedFiles |-> <<>>, errorFiles |-> <<>>]
  /\ thrown = NoError
  /\ mainResult = "pending"
  /\ calls = <<>>
  /\ events = <<>>
  /\ exitCode = -1

\* main has not been called
MainIdle ==
  /\ args = <<>>
  /\ fs = FileSystem(<<>>, FALSE)
  /\ mpc = "idle"
  /\ NoFrames

(***************************************************************************)
(* splitBill, line by line.                                                *)
(***************************************************************************)
CoreIdle ==
  /\ pc = "idle"
  /\ date = <<>>
  /\ location = <<>>
  /\ subTotal = Num(0)
  /\ tip = Num(0)
  /\ totalAmount = Num(0)
  /\ items = <<>>
  /\ outcome = "running"

\* lines 42-46
SplitBillTotals ==
  /\ pc = "start"
  /\ date' = formatDate(input.date)
  /\ location' = input.location
  /\ subTotal' = calculateSubTotal(input.items)
  /\ tip' = calculateTip(calculateSubTotal(input.items), input.tipPercentage)
  /\ totalAmount' = Add(calculateSubTotal(input.items),
                        calculateTip(calculateSubTotal(input.items),
                                     input.tipPercentage))
  /\ pc' = "calculateItems"
  /\ UNCHANGED <<input, items, outcome, tipVars, mainVars>>

\* line 47
SplitBillItems ==
  /\ pc = "calculateItems"
  /\ items' = calculateItems(input.items, input.tipPercentage)
  /\ pc' = "adjustAmount"
  /\ UNCHANGED <<input, date, location, subTotal, tip, totalAmount, outcome, tipVars,
                 mainVars>>

\* line 48, adjustAmount returning
SplitBillAdjust ==
  /\ pc = "adjustAmount"
  /\ ~adjustAmount(totalAmount, items).threw
  /\ items' = adjustAmount(totalAmount, items).items
  /\ pc' = "return"
  /\ UNCHANGED <<input, date, location, subTotal, tip, totalAmount, outcome, tipVars,
                 mainVars>>

\* line 48, adjustAmount throwing: the TypeError leaves splitBill
SplitBillAdjustThrows ==
  /\ pc = "adjustAmount"
  /\ adjustAmount(totalAmount, items).threw
  /\ outcome' = "threw"
  /\ pc' = "done"
  /\ UNCHANGED <<input, date, location, subTotal, tip, totalAmount, items, tipVars,
                 mainVars>>

\* lines 49-56
SplitBillReturn ==
  /\ pc = "return"
  /\ outcome' = "returned"
  /\ pc' = "done"
  /\ UNCHANGED <<input, date, location, subTotal, tip, totalAmount, items, tipVars,
                 mainVars>>

Init ==
  /\ input \in BillInputs
  /\ pc = "start"
  /\ date = <<>>
  /\ location = <<>>
  /\ subTotal = Num(0)
  /\ tip = Num(0)
  /\ totalAmount = Num(0)
  /\ items = <<>>
  /\ outcome = "running"
  /\ tipCalls = <<>>
  /\ MainIdle

Next ==
  \/ SplitBillTotals
  \/ SplitBillItems
  \/ SplitBillAdjust
  \/ SplitBillAdjustThrows
  \/ SplitBillReturn

Spec == Init /\ [][Next]_vars

\* what splitBill hands back once it returned
output ==
  [date |-> date, location |-> location, subTotal |-> subTotal, tip |-> tip,
   totalAmount |-> totalAmount, items |-> items]

(***************************************************************************)
(* calculateTip called on its own (it is exported).                        *)
(***************************************************************************)
TipSubTotals == {Rat(k, 20) : k \in 0..3} \cup {Num(10), Rat(201, 20), Num(115)}

TipRates == {Num(0), Num(10), Rat(25, 2), Num(15)}

\* calculateTip(s, p) is called and its result kept with the arguments
CalculateTipCall ==
  /\ pc = "idle"
  /\ \E s \in TipSubTotals, p \in TipRates :
       LET call == [subTotal |-> s, tipPercentage |-> p, result |-> calculateTip(s, p)]
       IN tipCalls' = IF Len(tipCalls) < MaxTipCalls THEN Append(tipCalls, call)
                      ELSE Append(Tail(tipCalls), call)
  /\ UNCHANGED <<coreVars, mainVars>>

InitTip ==
  /\ input = BillInput(SampleDate, Num(10), <<SharedBillItem(Num(10))>>)
  /\ CoreIdle
  /\ tipCalls = <<>>
  /\ MainIdle

NextTip == CalculateTipCall

SpecTip == InitTip /\ [][NextTip]_vars

(***************************************************************************)
(* main, step by step: one action for each stretch of code between two     *)
(* awaits, split by the way the code takes.  The call of splitBill runs    *)
(* the lines of splitBill above.                                           *)
(***************************************************************************)
Event(op, path, out) == [op |-> op, path |-> path, out |-> out]

\* processSingleFile is entered with the paths
SingleFrame(inputPath, outputPath, caller) ==
  [inputPath |-> inputPath, outputPath |-> outputPath, inputData |-> <<>>,
   billInput |-> JNull, billOutput |-> JNull, caller |-> caller]

\* lines 145-161 for the error caught at line 145: it is thrown on, to main's
\* catch or to the catch of the loop of processBatchFiles
SingleThrows(e) ==
  /\ thrown' = detailedError(singleFrame.inputPath, e)
  /\ events' = Append(events, Event("failed", singleFrame.inputPath, singleFrame.outputPath))
  /\ mpc' = IF singleFrame.caller = "main" THEN "reject" ELSE "batch.caught"

\* lines 14-19: too few arguments, parseArgs throwing, parseArgs returning
MainParseArgs ==
  /\ mpc = "main"
  /\ \/ /\ Len(args) < 2
        /\ thrown' = Error(<<Phrase.MissingArguments>>)
        /\ mpc' = "reject"
        /\ UNCHANGED mainFrame
     \/ /\ Len(args) >= 2
        /\ Failed(parseArgs(args).error)
        /\ thrown' = parseArgs(args).error
        /\ mpc' = "reject"
        /\ UNCHANGED mainFrame
     \/ /\ Len(args) >= 2
        /\ ~Failed(parseArgs(args).error)
        /\ mainFrame' = [inputPath |-> parseArgs(args).inputPath,
                         outputPath |-> parseArgs(args).outputPath]
        /\ mpc' = "validateInputPath"
        /\ UNCHANGED thrown
  /\ UNCHANGED <<coreVars, tipVars, exitCode, args, fs, singleFrame, batchFrame, mainResult,
                 calls, events>>

\* line 22
MainValidateInput ==
  /\ mpc = "validateInputPath"
  /\ \/ /\ ~Failed(validateInputPath(fs, mainFrame.inputPath))
        /\ mpc' = "validateOutputPath"
        /\ UNCHANGED thrown
     \/ /\ Failed(validateInputPath(fs, mainFrame.inputPath))
        /\ thrown' = validateInputPath(fs, mainFrame.inputPath)
        /\ mpc' = "reject"
  /\ UNCHANGED <<coreVars, tipVars, exitCode, args, fs, mainFrame, singleFrame, batchFrame,
                 mainResult, calls, events>>

\* line 25
MainValidateOutput ==
  /\ mpc = "validateOutputPath"
  /\ fs' = validateOutputPath(fs, mainFrame.outputPath).fs
  /\ \/ /\ ~Failed(validateOutputPath(fs, mainFrame.outputPath).error)
        /\ mpc' = "stat"
        /\ UNCHANGED thrown
     \/ /\ Failed(validateOutputPath(fs, mainFrame.outputPath).error)
        /\ thrown' = validateOutputPath(fs, mainFrame.outputPath).error
        /\ mpc' = "reject"
  /\ UNCHANGED <<coreVars, tipVars, exitCode, args, mainFrame, singleFrame, batchFrame,
                 mainResult, calls, events>>

\* lines 28-38: processSingleFile is called for a file, processBatchFiles for a
\* directory, and anything else is turned down
MainStat ==
  /\ mpc = "stat"
  /\ \/ /\ fs.nodes[mainFrame.inputPath].kind = "file"
        /\ singleFrame' = SingleFrame(mainFrame.inputPath, mainFrame.outputPath, "main")
        /\ events' = Append(events, Event("attempt", mainFrame.inputPath,
                                          mainFrame.outputPath))
        /\ mpc' = "single"
        /\ UNCHANGED thrown
     \/ /\ fs.nodes[mainFrame.inputPath].kind = "dir"
        /\ events' = Append(events, Event("batch", mainFrame.inputPath,
                                          mainFrame.outputPath))
        /\ mpc' = "batch"
        /\ UNCHANGED <<singleFrame, thrown>>
     \/ /\ fs.nodes[mainFrame.inputPath].kind \notin {"file", "dir"}
        /\ thrown' = Error(<<Phrase.UnsupportedInputType>>
                             \o PathText(mainFrame.inputPath))
        /\ mpc' = "reject"
        /\ UNCHANGED <<singleFrame, events>>
  /\ UNCHANGED <<coreVars, tipVars, exitCode, args, fs, mainFrame, batchFrame, mainResult,
                 calls>>

\* lines 114-119: the name is no JSON file's, or the file is read, or
\* readFileWithValidation throws
SingleRead ==
  /\ mpc = "single"
  /\ \/ /\ ~EndsWith(toLowerCase(extname(singleFrame.inputPath)), DotJson)
        /\ SingleThrows(Error(<<Phrase.UnsupportedFileFormat>>
                                \o PathText(singleFrame.inputPath)
                                \o <<Phrase.OnlyJsonSupported>>))
        /\ UNCHANGED singleFrame
     \/ /\ EndsWith(toLowerCase(extname(singleFrame.inputPath)), DotJson)
        /\ ~Failed(readFileWithValidation(fs, singleFrame.inputPath).error)
        /\ singleFrame' =
             [singleFrame EXCEPT
                !.inputData = readFileWithValidation(fs, singleFrame.inputPath).text]
        /\ events' = Append(events, Event("read", singleFrame.inputPath,
                                          singleFrame.outputPath))
        /\ mpc' = "single.parse"
        /\ UNCHANGED thrown
     \/ /\ EndsWith(toLowerCase(extname(singleFrame.inputPath)), DotJson)
        /\ Failed(readFileWithValidation(fs, singleFrame.inputPath).error)
        /\ SingleThrows(readFileWithValidation(fs, singleFrame.inputPath).error)
        /\ UNCHANGED singleFrame
  /\ UNCHANGED <<coreVars, tipVars, exitCode, args, fs, mainFrame, batchFrame, mainResult,
                 calls>>

\* line 122, parseAndValidateJSON throwing
SingleParseFails ==
  /\ mpc = "single.parse"
  /\ Failed(parseAndValidateJSON(singleFrame.inputData, singleFrame.inputPath).error)
  /\ SingleThrows(parseAndValidateJSON(singleFrame.inputData, singleFrame.inputPath).error)
  /\ UNCHANGED <<coreVars, tipVars, exitCode, args, fs, mainFrame, singleFrame, batchFrame,
                 mainResult, calls>>

\* lines 122-131: the document is a bill, splitBill is called with it
SingleParseOk ==
  /\ mpc = "single.parse"
  /\ LET parsed == parseAndValidateJSON(singleFrame.inputData, singleFrame.inputPath)
     IN /\ ~Failed(parsed.error)
        /\ singleFrame' = [singleFrame EXCEPT !.billInput = parsed.value]
        /\ input' = asBillInput(parsed.value)
  /\ pc' = "start"
  /\ date' = <<>>
  /\ location' = <<>>
  /\ subTotal' = Num(0)
  /\ tip' = Num(0)
  /\ totalAmount' = Num(0)
  /\ items' = <<>>
  /\ outcome' = "running"
  /\ events' = Append(events, Event("validated", singleFrame.inputPath,
                                    singleFrame.outputPath))
  /\ mpc' = "single.core"
  /\ UNCHANGED <<tipVars, exitCode, args, fs, mainFrame, batchFrame, thrown, mainResult,
                 calls>>

\* line 131, splitBill returning
SingleSplitBillReturns ==
  /\ mpc = "single.core"
  /\ pc = "done"
  /\ outcome = "returned"
  /\ singleFrame' = [singleFrame EXCEPT !.billOutput = BillOutputJson(output)]
  /\ calls' = Append(calls, [arg |-> singleFrame.billInput, threw |-> FALSE,
                             value |-> BillOutputJson(output)])
  /\ events' = Append(events, Event("returned", singleFrame.inputPath,
                                    singleFrame.outputPath))
  /\ mpc' = "single.write"
  /\ UNCHANGED <<coreVars, tipVars, exitCode, args, fs, mainFrame, batchFrame, thrown,
                 mainResult>>

\* splitBill throwing after an empty output file was made
SingleSplitBillThrowsAfterWriting ==
  /\ mpc = "single.core"
  /\ pc = "done"
  /\ outcome = "threw"
  /\ calls' = Append(calls, [arg |-> singleFrame.billInput, threw |-> TRUE,
                             value |-> JNull])
  /\ fs' = writeFile(fs, singleFrame.outputPath, <<>>, FALSE).fs
  /\ SingleThrows(Error(<<Phrase.CoreFailed, Phrase.UndefinedPropertyMessage>>))
  /\ UNCHANGED <<coreVars, tipVars, exitCode, args, mainFrame, singleFrame, batchFrame,
                 mainResult>>

\* lines 132-134, splitBill throwing
SingleSplitBillThrows ==
  /\ mpc = "single.core"
  /\ pc = "done"
  /\ outcome = "threw"
  /\ calls' = Append(calls, [arg |-> singleFrame.billInput, threw |-> TRUE,
                             value |-> JNull])
  /\ SingleThrows(Error(<<Phrase.CoreFailed, Phrase.UndefinedPropertyMessage>>))
  /\ UNCHANGED <<coreVars, tipVars, exitCode, args, fs, mainFrame, singleFrame, batchFrame,
                 mainResult>>

\* line 142: the output is written and processSingleFile returns, or
\* writeFileWithValidation throws
SingleWrite ==
  /\ mpc = "single.write"
  /\ \E truncated \in BOOLEAN :
       LET wrote == writeFileWithValidation(fs, singleFrame.outputPath,
                                            singleFrame.billOutput, truncated)
       IN /\ fs' = wrote.fs
          /\ \/ /\ ~Failed(wrote.error)
                /\ events' = Append(events, Event("written", singleFrame.inputPath,
                                                  singleFrame.outputPath))
                /\ mpc' = IF singleFrame.caller = "main" THEN "resolve"
                          ELSE "batch.succeeded"
                /\ UNCHANGED thrown
             \/ /\ Failed(wrote.error)
                /\ SingleThrows(wrote.error)
  /\ UNCHANGED <<coreVars, tipVars, exitCode, args, mainFrame, singleFrame, batchFrame,
                 mainResult, calls>>

\* lines 182-231: the output directory cannot be made; or the input directory
\* is listed, and without a JSON file in it processBatchFiles returns, else
\* the loop is entered
BatchSetup ==
  /\ mpc = "batch"
  /\ \/ /\ mkdir(fs, mainFrame.outputPath).code # ""
        /\ thrown' = Error(<<Phrase.CannotCreateOutputDir>>
                             \o PathText(mainFrame.outputPath) \o <<": ">>
                             \o NodeError(mkdir(fs, mainFrame.outputPath).code, "mkdir",
                                          mainFrame.outputPath).message)
        /\ mpc' = "reject"
        /\ UNCHANGED <<fs, batchFrame, events>>
     \/ /\ mkdir(fs, mainFrame.outputPath).code = ""
        /\ LET made == mkdir(fs, mainFrame.outputPath).fs
               files == readdir(made, mainFrame.inputPath)
               jsonFiles == SelectSeq(files, LAMBDA file : EndsWith(file, DotJson))
           IN /\ fs' = made
              /\ batchFrame' = [files |-> files, jsonFiles |-> jsonFiles, index |-> 1,
                                successCount |-> 0, errorCount |-> 0,
                                processedFiles |-> <<>>, errorFiles |-> <<>>]
              /\ mpc' = IF jsonFiles = <<>> THEN "resolve" ELSE "batch.loop"
        /\ events' = Append(events, Event("listed", mainFrame.inputPath,
                                          mainFrame.outputPath))
        /\ UNCHANGED thrown
  /\ UNCHANGED <<coreVars, tipVars, exitCode, args, mainFrame, singleFrame, mainResult,
                 calls>>

\* lines 234-245: processSingleFile is called for the next file
BatchNextFile ==
  /\ mpc = "batch.loop"
  /\ batchFrame.index <= Len(batchFrame.jsonFiles)
  /\ LET file == batchFrame.jsonFiles[batchFrame.index]
         inputPath == join(mainFrame.inputPath, file)
         outputPath == join(mainFrame.outputPath, file)
     IN /\ singleFrame' = SingleFrame(inputPath, outputPath, "batch")
        /\ events' = Append(events, Event("attempt", inputPath, outputPath))
  /\ mpc' = "single"
  /\ UNCHANGED <<coreVars, tipVars, exitCode, args, fs, mainFrame, batchFrame, thrown,
                 mainResult, calls>>

\* lines 246-247
BatchFileSucceeded ==
  /\ mpc = "batch.succeeded"
  /\ batchFrame' = [batchFrame EXCEPT
                      !.successCount = @ + 1,
                      !.processedFiles = Append(@, batchFrame.jsonFiles[batchFrame.index]),
                      !.index = @ + 1]
  /\ mpc' = "batch.loop"
  /\ UNCHANGED <<coreVars, tipVars, exitCode, args, fs, mainFrame, singleFrame, thrown,
                 mainResult, calls, events>>

\* the catch of the loop gives the error on to its caller
BatchFileFailedAborts ==
  /\ mpc = "batch.caught"
  /\ batchFrame' = [batchFrame EXCEPT
                      !.errorCount = @ + 1,
                      !.errorFiles = Append(@, batchFrame.jsonFiles[batchFrame.index]),
                      !.index = @ + 1]
  /\ mpc' = "reject"
  /\ UNCHANGED <<coreVars, tipVars, exitCode, args, fs, mainFrame, singleFrame, thrown,
                 mainResult, calls, events>>

\* lines 248-256
BatchFileFailed ==
  /\ mpc = "batch.caught"
  /\ batchFrame' = [batchFrame EXCEPT
                      !.errorCount = @ + 1,
                      !.errorFiles = Append(@, batchFrame.jsonFiles[batchFrame.index]),
                      !.index = @ + 1]
  /\ mpc' = "batch.loop"
  /\ UNCHANGED <<coreVars, tipVars, exitCode, args, fs, mainFrame, singleFrame, thrown,
                 mainResult, calls, events>>

\* lines 259-276: after the last file processBatchFiles throws when every
\* file failed, and returns otherwise
BatchFinish ==
  /\ mpc = "batch.loop"
  /\ batchFrame.index > Len(batchFrame.jsonFiles)
  /\ \/ /\ batchFrame.errorCount > 0 /\ batchFrame.successCount = 0
        /\ thrown' = Error(AllFilesFailed(batchFrame.errorCount))
        /\ mpc' = "reject"
     \/ /\ ~(batchFrame.errorCount > 0 /\ batchFrame.successCount = 0)
        /\ mpc' = "resolve"
        /\ UNCHANGED thrown
  /\ UNCHANGED <<coreVars, tipVars, exitCode, args, fs, mainFrame, singleFrame, batchFrame,
                 mainResult, calls, events>>

\* main's promise resolves, or rejects with the error (lines 39-42)
MainSettle ==
  /\ mpc \in {"resolve", "reject"}
  /\ mainResult' = IF mpc = "resolve" THEN "resolved" ELSE "rejected"
  /\ mpc' = "done"
  /\ UNCHANGED <<coreVars, tipVars, exitCode, args, fs, mainFrame, singleFrame, batchFrame,
                 thrown, calls, events>>

\* cli.ts lines 3-12: runCLI, after main(process.argv) has settled
RunCLI ==
  /\ mpc = "done"
  /\ exitCode' = IF mainResult = "resolved" THEN 0 ELSE handleCLIError(thrown)
  /\ mpc' = "exited"
  /\ UNCHANGED <<coreVars, tipVars, args, fs, mainFrame, singleFrame, batchFrame, thrown,
                 mainResult, calls, events>>

\* main is called on a command line in a file system
InitMain ==
  /\ input = ValidBillList[1]
  /\ CoreIdle
  /\ tipCalls = <<>>
  /\ mpc = "main"
  /\ NoFrames
  /\ LET MainCalled(run) == args = run.args /\ fs = run.fs
     IN
     \/ \E run \in OddRuns : MainCalled(run)
     \/ \E t \in 1..Len(FileTexts), full \in BOOLEAN,
           o \in {"newDir", "cwd", "overwrite", "readOnlyFile", "directory",
                  "underFile", "readOnlyDir", "same"} :
          \/ MainCalled(SingleRun("json", FileTexts[t], o, full))
          \/ /\ t = 1
             /\ \E i \in {"upper", "txt", "unreadable", "absent", "other", "underFile"} :
                  MainCalled(SingleRun(i, FileTexts[1], o, full))
     \/ \E k \in 0..MaxFiles :
          \E nodes \in [1..k -> 1..Len(BatchEntryNodes)],
             other \in {<<>>, DotJson, Name.upper, Name.notes},
             o \in {"absent", "empty", "stale", "file", "readOnly", "same", "full"} :
            MainCalled(BatchRun([i \in 1..k |-> BatchEntryNodes[nodes[i]]], other, o))

NextMain ==
  \/ MainParseArgs
  \/ MainValidateInput
  \/ MainValidateOutput
  \/ MainStat
  \/ SingleRead
  \/ SingleParseFails
  \/ SingleParseOk
  \/ SplitBillTotals
  \/ SplitBillItems
  \/ SplitBillAdjust
  \/ SplitBillAdjustThrows
  \/ SplitBillReturn
  \/ SingleSplitBillReturns
  \/ SingleSplitBillThrows
  \/ SingleWrite
  \/ BatchSetup
  \/ BatchNextFile
  \/ BatchFileSucceeded
  \/ BatchFileFailed
  \/ BatchFinish
  \/ MainSettle
  \/ RunCLI

SpecMain == InitMain /\ [][NextMain]_vars

(***************************************************************************)
(* Properties of the core.                                                 *)
(***************************************************************************)
Finished == pc = "done"

PersonalIndexes == {k \in 1..Len(input.items) : ~input.items[k].isShared}

SharedIndexes == {k \in 1..Len(input.items) : input.items[k].isShared}

Participants == {input.items[k].person : k \in PersonalIndexes}

FirstAppearance(who) ==
  CHOOSE k \in PersonalIndexes :
    /\ input.items[k].person = who
    /\ \A j \in PersonalIndexes : input.items[j].person = who => k <= j

RECURSIVE PriceSum(_)
PriceSum(indexes) ==
  IF indexes = {} THEN Num(0)
  ELSE LET k == CHOOSE i \in indexes : TRUE
       IN Add(input.items[k].price, PriceSum(indexes \ {k}))

PersonalSum(who) == PriceSum({k \in PersonalIndexes : input.items[k].person = who})

\* the sum of the amounts of splitBill's items, by induction on the set of places
RECURSIVE AmountSumOver(_)
AmountSumOver(places) ==
  IF places = {} THEN Num(0)
  ELSE LET k == CHOOSE i \in places : TRUE
       IN Add(items[k].amount, AmountSumOver(places \ {k}))

\* the nearest multiple of 0.1, a half going up, as a number of tenths
NearestTenths(x) == CHOOSE t \in -1..(10 * (x.n \div x.d) + 11) :
                       /\ 2 * t * x.d <= 20 * x.n + x.d
                       /\ 20 * x.n + x.d < 2 * (t + 1) * x.d

\* C1: for every valid input (non-empty items, prices and tipPercentage not
\* negative), once splitBill is over the sum of its items' amounts, rounded to
\* one decimal, equals its totalAmount rounded to one decimal.
C1_RoundTripTotal ==
  Finished =>
    NearestTenths(AmountSumOver(1..Len(items))) = NearestTenths(totalAmount)

\* C2: splitBill never throws on an input the validator accepts.
C2_NeverThrows == outcome # "threw"

\* C3: the names of splitBill's items are the distinct persons of the input's
\* personal items, each exactly once and nothing else, in the order of their
\* first appearance among the input items.
C3_ParticipantsInOrder ==
  pc \in {"adjustAmount", "return", "done"} =>
    /\ {items[i].name : i \in 1..Len(items)} = Participants
    /\ \A i, j \in 1..Len(items) : i # j => items[i].name # items[j].name
    /\ \A i, j \in 1..Len(items) :
         i < j => FirstAppearance(items[i].name) < FirstAppearance(items[j].name)

\* C3 witness: a person with two personal items, after another person's item,
\* in a bill splitBill returned for.
C3_Witness ==
  /\ Finished
  /\ outcome = "returned"
  /\ Len(items) = 2
  /\ \E i, j, k \in PersonalIndexes :
       /\ i < j /\ j < k
       /\ input.items[i].person = input.items[k].person
       /\ input.items[i].person # input.items[j].person

TipCallsMonotone(made) ==
  \A i, j \in 1..Len(made) :
    /\ (made[i].tipPercentage = made[j].tipPercentage
          /\ Leq(made[i].subTotal, made[j].subTotal))
         => Leq(made[i].result, made[j].result)
    /\ (made[i].subTotal = made[j].subTotal
          /\ Leq(made[i].tipPercentage, made[j].tipPercentage))
         => Leq(made[i].result, made[j].result)

\* C4: calculateTip(s, p) does not decrease when s grows with p fixed, nor when
\* p grows with s fixed, for s and p not negative.
C4_TipMonotone == TipCallsMonotone(tipCalls)

\* C4 witness: two calls with the same percentage and two with the same
\* subtotal, the larger argument giving the strictly larger tip.
C4_Witness ==
  /\ Len(tipCalls) = 2
  /\ tipCalls[1].subTotal = tipCalls[2].subTotal
  /\ Less(tipCalls[1].tipPercentage, tipCalls[2].tipPercentage)
  /\ Less(tipCalls[1].result, tipCalls[2].result)

\* C5: with tipPercentage = 0 and at least one personal item, splitBill returns
\* with tip = 0 and totalAmount = subTotal, every participant's tip
\* contribution is 0, and each amount before reconciliation is the participant's
\* personal sum plus sharedTotal / participantCount, rounded to one decimal.
C5_ZeroTip ==
  (input.tipPercentage = Num(0) /\ PersonalIndexes # {}) =>
    /\ pc \in {"calculateItems", "adjustAmount", "return", "done"} =>
         tip = Num(0) /\ totalAmount = subTotal
    /\ pc = "adjustAmount" =>
         /\ Len(items) = Cardinality(Participants)
         /\ \A i \in 1..Len(items) :
              /\ personTip(input.items, input.tipPercentage, items[i].name,
                           Len(items)) = Num(0)
              /\ 10 * items[i].amount.n =
                   items[i].amount.d *
                     NearestTenths(Add(PersonalSum(items[i].name),
                                       Div(PriceSum(SharedIndexes),
                                           Num(Cardinality(Participants)))))
    /\ Finished => outcome = "returned"

\* C5 witness: a bill without tip, with a shared item that costs something and
\* two participants, before reconciliation.
C5_Witness ==
  /\ pc = "adjustAmount"
  /\ input.tipPercentage = Num(0)
  /\ Cardinality(Participants) = 2
  /\ Less(Num(0), PriceSum(SharedIndexes))

Plain(k) == IF k < 10 THEN <<Digits[k + 1]>> ELSE Pad2(k)

\* a text of the shape YYYY-MM-DD, and the numbers its month and day spell
IsZeroPadded(text) ==
  /\ Len(text) = 10
  /\ text[5] = "-" /\ text[8] = "-"
  /\ \A i \in {1, 2, 3, 4, 6, 7, 9, 10} : IsDigit(text[i])

TwoDigits(text, i) == 10 * DigitValue(text[i]) + DigitValue(text[i + 1])

\* C6: for a zero-padded date YYYY-MM-DD formatDate gives the year text
\* unchanged, the month and the day as integers without a leading zero, each
\* followed by its sign; 2024-03-21 and 2024-01-05 give the two dates of the
\* specification; and the date of splitBill's output is that text.
C6_FormatDate ==
  (pc # "start" /\ pc # "idle") =>
    /\ IsZeroPadded(input.date) =>
         output.date = SubSeq(input.date, 1, 4) \o <<DateMark.year>>
                         \o Plain(TwoDigits(input.date, 6)) \o <<DateMark.month>>
                         \o Plain(TwoDigits(input.date, 9)) \o <<DateMark.day>>
    /\ input.date = <<"2", "0", "2", "4", "-", "0", "3", "-", "2", "1">> =>
         output.date = <<"2", "0", "2", "4", DateMark.year, "3", DateMark.month, "2", "1", DateMark.day>>
    /\ input.date = <<"2", "0", "2", "4", "-", "0", "1", "-", "0", "5">> =>
         output.date = <<"2", "0", "2", "4", DateMark.year, "1", DateMark.month, "5", DateMark.day>>

\* C6 witness: splitBill returned for the bill of 2024-01-05.
C6_Witness ==
  /\ Finished
  /\ outcome = "returned"
  /\ input.date = <<"2", "0", "2", "4", "-", "0", "1", "-", "0", "5">>
  /\ output.date = <<"2", "0", "2", "4", DateMark.year, "1", DateMark.month, "5", DateMark.day>>

(***************************************************************************)
(* Properties of main.                                                     *)
(***************************************************************************)
NonEmptyString(j) == j.t = "string" /\ j.v # <<>>

NonNegativeNumber(j) == j.t = "number" /\ Leq(Num(0), j.v)

IsBillItem(j) ==
  /\ j.t = "object"
  /\ NonEmptyString(Get(j, "name"))
  /\ NonNegativeNumber(Get(j, "price"))
  /\ Get(j, "isShared").t = "boolean"
  /\ (~Get(j, "isShared").v => NonEmptyString(Get(j, "person")))

IsBill(j) ==
  /\ j.t = "object"
  /\ NonEmptyString(Get(j, "date"))
  /\ NonEmptyString(Get(j, "location"))
  /\ NonNegativeNumber(Get(j, "tipPercentage"))
  /\ Get(j, "items").t = "array"
  /\ Get(j, "items").v # <<>>
  /\ \A i \in 1..Len(Get(j, "items").v) : IsBillItem(Get(j, "items").v[i])

IsBillText(text) == JSONparse(text).ok /\ IsBill(JSONparse(text).v)

Ops(op) == {i \in 1..Len(events) : events[i].op = op}

Attempts(path) == Cardinality({i \in Ops("attempt") : events[i].path = path})

FailedFiles == {events[i].path : i \in Ops("failed")}

WrittenFiles == {events[i].path : i \in Ops("written")}

MainDone == mpc = "done"

SingleMode == singleFrame.caller = "main"

InputIsDirectory ==
  /\ mainFrame.inputPath # <<>>
  /\ Exists(fs, mainFrame.inputPath)
  /\ fs.nodes[mainFrame.inputPath].kind = "dir"

\* the names of the input directory, and those of them that end with .json
EntryNames ==
  {readdir(fs, mainFrame.inputPath)[i] : i \in 1..Len(readdir(fs, mainFrame.inputPath))}

JsonEntryNames == {name \in EntryNames : EndsWith(name, DotJson)}

\* C7: splitBill is only ever called on a parsed document that is a bill (date
\* and location non-empty strings, tipPercentage a number >= 0, items a
\* non-empty array, every item with a non-empty string name, a number price
\* >= 0, a boolean isShared and, when not shared, a non-empty string person);
\* a text that is no such document makes processSingleFile throw without a
\* call of splitBill, so that main called on that file rejects.
C7_ValidatorGate ==
  /\ [](\A k \in 1..Len(calls) : IsBill(calls[k].arg))
  /\ [](mpc = "single.core" =>
          /\ IsBill(singleFrame.billInput)
          /\ singleFrame.billInput = JSONparse(singleFrame.inputData).v
          /\ input = asBillInput(singleFrame.billInput))
  /\ []((MainDone /\ SingleMode /\ ~IsBillText(singleFrame.inputData)) =>
          mainResult = "rejected" /\ calls = <<>>)
  /\ [][(mpc = "single.parse" /\ ~IsBillText(singleFrame.inputData)) =>
          /\ calls' = calls
          /\ pc' = pc
          /\ Failed(thrown')
          /\ mpc' = IF SingleMode THEN "reject" ELSE "batch.caught"]_vars

\* a file of a batch was turned down by the validator with no call made, and
\* the next one, a bill, is being given to splitBill
C7_Witness ==
  /\ mpc = "single.core"
  /\ pc = "start"
  /\ IsBill(singleFrame.billInput)
  /\ calls = <<>>
  /\ batchFrame.errorCount = 1
  /\ \E i \in 1..Len(thrown.message) : thrown.message[i] = Phrase.JsonValidationInFile

\* the output path can be written as a file
OutputWritable == writeFile(fs, singleFrame.outputPath, <<>>, FALSE).code = ""

\* C8: main run on a single valid JSON bill file with an output path naming a
\* file calls splitBill exactly once, with the parsed document, and afterwards
\* the output file holds JSON that parses to the value splitBill returned.
C8_SingleFileRun ==
  (MainDone /\ SingleMode /\ IsBillText(singleFrame.inputData) /\ OutputWritable) =>
    /\ Len(calls) = 1
    /\ calls[1].arg = JSONparse(singleFrame.inputData).v
    /\ ~calls[1].threw
    /\ Exists(fs, singleFrame.outputPath)
    /\ JSONparse(fs.nodes[singleFrame.outputPath].text).ok
    /\ JSONparse(fs.nodes[singleFrame.outputPath].text).v = calls[1].value

Listed == Ops("listed") # {}

EachJsonFileAttemptedOnce ==
  /\ \A name \in JsonEntryNames : Attempts(join(mainFrame.inputPath, name)) = 1
  /\ Cardinality(Ops("attempt")) = Cardinality(JsonEntryNames)

RejectsIffAllFailed ==
  mainResult = "rejected" <=> (FailedFiles # {} /\ WrittenFiles = {})

\* C9 as stated: in batch mode (the input path is a directory) every JSON file
\* of the directory is attempted exactly once, whatever failed before it, and
\* main rejects exactly when at least one file failed and none succeeded.
C9_BatchAsStated ==
  (MainDone /\ InputIsDirectory) => EachJsonFileAttemptedOnce /\ RejectsIffAllFailed

\* C9: in batch mode, once the output path passed validation and the output
\* directory is there, every JSON file of the directory is attempted exactly
\* once, whatever failed before it, and main rejects exactly when at least one
\* file failed and none succeeded; when the output path fails validation or the
\* output directory cannot be made, main rejects with no file attempted.
C9_Batch ==
  /\ \A i \in Ops("attempt") : Attempts(events[i].path) = 1
  /\ (MainDone /\ InputIsDirectory /\ Listed) =>
       EachJsonFileAttemptedOnce /\ RejectsIffAllFailed
  /\ (MainDone /\ InputIsDirectory /\ ~Listed) =>
       /\ mainResult = "rejected"
       /\ Ops("attempt") = {}
       /\ \E i \in 1..Len(thrown.message) :
            thrown.message[i] \in {Phrase.CannotCreateOutputDir, Phrase.OutputNotWritable,
                                   Phrase.OutputInvalidDirectory, Phrase.ValidateOutputFailed}

\* the first file of a batch failed, the second was processed, main resolved
C9_Witness ==
  /\ MainDone
  /\ InputIsDirectory
  /\ mainResult = "resolved"
  /\ batchFrame.errorFiles = <<JsonName(1)>>
  /\ batchFrame.processedFiles = <<JsonName(2)>>
  /\ FailedFiles = {join(mainFrame.inputPath, JsonName(1))}
  /\ WrittenFiles = {join(mainFrame.inputPath, JsonName(2))}

\* every entry of the input directory named *.json is a readable file holding a bill
EveryJsonFileIsBill ==
  \A name \in JsonEntryNames :
    LET node == fs.nodes[join(mainFrame.inputPath, name)]
    IN node.kind = "file" /\ node.r /\ IsBillText(node.text)

\* C10: in batch mode where every JSON file is a valid bill, after main
\* resolves the output directory exists and holds a file for each entry of the
\* input directory whose name ends with .json, under the same name, and none
\* for an entry whose name does not.
C10_BatchOutputs ==
  (/\ MainDone
   /\ mainResult = "resolved"
   /\ InputIsDirectory
   /\ mainFrame.outputPath # mainFrame.inputPath
   /\ EveryJsonFileIsBill) =>
    /\ Exists(fs, mainFrame.outputPath)
    /\ fs.nodes[mainFrame.outputPath].kind = "dir"
    /\ \A name \in EntryNames :
         EndsWith(name, DotJson) <=>
           (/\ Exists(fs, join(mainFrame.outputPath, name))
            /\ fs.nodes[join(mainFrame.outputPath, name)].kind = "file")

(***************************************************************************)
(* Properties of the command line interface.                               *)
(***************************************************************************)
Exited == mpc = "exited"

Says(phrases) == \E i \in 1..Len(thrown.message) : thrown.message[i] \in phrases

\* the kind of the failure main rejected with, by the reason the message gives
\* (the text of a path is no reason)
FailureKind ==
  IF Says({Phrase.MissingArguments, Phrase.InputRequired, Phrase.OutputRequired})
    THEN "argument"
  ELSE IF Says({Phrase.InputNotFound, Phrase.FileNotFound, "ENOENT"}) THEN "missing file"
  ELSE IF Says({Phrase.InputNotReadable, Phrase.OutputNotWritable, Phrase.FileNotReadable,
                Phrase.FileNotWritable, "EACCES"})
    THEN "permission"
  ELSE IF Says({Phrase.JsonSyntaxInFile, Phrase.JsonValidationInFile,
                Phrase.UnsupportedFileFormat})
    THEN "format"
  ELSE "other"

ExitStatusOf ==
  [k \in {"argument", "missing file", "permission", "format", "other"} |->
     CASE k = "argument" -> 2 [] k = "missing file" -> 3 [] k = "permission" -> 4
       [] k = "format" -> 5 [] k = "other" -> 1]

\* C11: once the process has exited, its status is 0 when main resolved and
\* otherwise the status of the kind of the failure: argument error 2, missing
\* file 3, permission error 4, JSON format or validation error 5, any other
\* error with a message 1.
C11_ExitStatusByKind ==
  Exited =>
    exitCode = IF mainResult = "resolved" THEN 0 ELSE ExitStatusOf[FailureKind]

(***************************************************************************)
(* Properties of the messages main rejects with.                           *)
(***************************************************************************)
InputGiven == mainFrame.inputPath # <<>>

RejectedSaying(needle) ==
  mainResult = "rejected" /\ includes(thrown.message, needle)

Contains(whole, part) ==
  \E i \in 0..(Len(whole) - Len(part)) : SubSeq(whole, i + 1, i + Len(part)) = part

\* main was given one file, has read it and rejected it on parsing or validating
SingleFileRefused ==
  /\ MainDone
  /\ SingleMode
  /\ Ops("read") # {}
  /\ Failed(parseAndValidateJSON(singleFrame.inputData, singleFrame.inputPath).error)

\* the document has a field (of its own or of an item) that is missing, of the
\* wrong type or out of range
FieldFaultText(text) ==
  /\ JSONparse(text).ok
  /\ LET doc == JSONparse(text).v
     IN /\ TypeOf(doc) = "object"
        /\ doc.t # "null"
        /\ ~IsBill(doc)
        /\ Get(doc, "items").t = "array" =>
             \A i \in 1..Len(Get(doc, "items").v) : Get(doc, "items").v[i].t # "null"

EmptyInputGiven ==
  /\ \E i \in 1..Len(args) : args[i] = Arg("--input=", <<>>)
  /\ \E i \in 1..Len(args) : args[i].flag = "--output="
  /\ LastValue(args, "--input=") = <<>>

\* C14: when main is called with an empty --input value, with --output set or
\* empty too, it rejects with a message that includes
\* 必須提供 --input 和 --output 參數.
C14_EmptyInput ==
  (MainDone /\ EmptyInputGiven) => RejectedSaying(Needle.inputAndOutputRequired)

(***************************************************************************)
(* Properties of the amounts.                                              *)
(***************************************************************************)
\* the multiple of 0.1 nearest to x
Round1(x) == Rat(NearestTenths(x), 10)

\* what the person is charged before the tip: the person's own items and an
\* equal part of the shared ones
ExpectedSubTotal(who) ==
  Add(PersonalSum(who), Div(PriceSum(SharedIndexes), Num(Cardinality(Participants))))

\* the person's part of the tip of the output
ExpectedTip(who) ==
  IF PriceSum(1..Len(input.items)) = Num(0) THEN Num(0)
  ELSE Div(Mul(tip, ExpectedSubTotal(who)), PriceSum(1..Len(input.items)))

\* C15: with at least one participant, before reconciliation the amount of
\* each participant is round1(subTotalForPerson + personTip), subTotalForPerson
\* being the participant's personal prices plus the shared prices over the
\* number of participants, and personTip the output's tip times
\* subTotalForPerson over the sum of all prices, or 0 when that sum is 0.
C15_AmountBeforeReconciliation ==
  (pc = "adjustAmount" /\ Participants # {}) =>
    /\ Len(items) = Cardinality(Participants)
    /\ \A i \in 1..Len(items) :
         items[i].amount =
           Round1(Add(ExpectedSubTotal(items[i].name), ExpectedTip(items[i].name)))

\* two participants with different sub-totals, shared items and a tip
C15_Witness ==
  /\ pc = "adjustAmount"
  /\ Len(items) = 2
  /\ SharedIndexes # {}
  /\ Less(Num(0), tip)
  /\ ExpectedSubTotal(items[1].name) # ExpectedSubTotal(items[2].name)
  /\ Less(Num(0), items[1].amount)

\* the difference adjustAmount finds between the target and the sum
Difference == Sub(Round1(totalAmount), Round1(AmountSumOver(1..Len(items))))

\* C16: the step of adjustAmount leaves the input alone and changes at most
\* one value: nothing when the rounded difference between the target and
\* the sum of the amounts is zero (or there is no PersonItem), and otherwise
\* the amount of the first PersonItem alone, by exactly that difference, the
\* names, the order and the other amounts staying as they are.
C16_ReconciliationFrame ==
  [][pc = "adjustAmount" =>
       /\ input' = input
       /\ Len(items') = Len(items)
       /\ \A i \in 1..Len(items) :
            /\ items'[i].name = items[i].name
            /\ (i > 1 \/ Difference = Num(0)) => items'[i].amount = items[i].amount
            /\ (i = 1 /\ Difference # Num(0)) =>
                 items'[i].amount = Add(items[i].amount, Difference)]_vars

\* splitBill is over, and the first of several amounts is no longer what
\* calculateItems gave
C16_Witness ==
  /\ Finished
  /\ outcome = "returned"
  /\ Len(items) >= 2
  /\ items[1].amount # calculateItems(input.items, input.tipPercentage)[1].amount
  /\ \A i \in 2..Len(items) :
       items[i] = calculateItems(input.items, input.tipPercentage)[i]

\* C17: for an input with at least one personal item (prices and
\* tipPercentage not negative), every amount of the items splitBill returns
\* is >= 0.
C17_AmountsNotNegative ==
  (Finished /\ outcome = "returned" /\ Participants # {}) =>
    \A i \in 1..Len(items) : Leq(Num(0), items[i].amount)

\* C18: with n >= 1 participants the difference adjustAmount applies is less
\* than 0.05 * (n + 1) in absolute value; with one participant it is zero and
\* the amount of that participant is totalAmount rounded to one decimal, before
\* and after adjustAmount.
C18_DifferenceBound ==
  /\ (pc = "adjustAmount" /\ Len(items) >= 1) =>
       /\ Less(MathAbs(Difference), Rat(5 * (Len(items) + 1), 100))
       /\ Len(items) = 1 =>
            Difference = Num(0) /\ items[1].amount = Round1(totalAmount)
  /\ (pc \in {"return", "done"} /\ outcome # "threw" /\ Len(items) = 1) =>
       items[1].amount = Round1(totalAmount)

\* three participants and a difference of 0.1 to apply
C18_Witness ==
  /\ pc = "adjustAmount"
  /\ Len(items) = 3
  /\ MathAbs(Difference) = Rat(1, 10)

(***************************************************************************)
(* Properties of the order of the steps on a file.                         *)
(***************************************************************************)
SameFile(i, j) == events[i].path = events[j].path /\ events[i].out = events[j].out

\* C19: an output file is written for an input file only after, in this
\* order, the file was read, parsed and validated, and splitBill returned for
\* it; the steps before the write leave the file system alone, so that when
\* one of them fails nothing is written for the file, which is then done with.
\* This for the one file of a single-file run and for each file of a batch.
C19_WriteComesLast ==
  /\ [](\A w \in Ops("written") :
          /\ w > 4
          /\ events[w - 4].op = "attempt"
          /\ events[w - 3].op = "read"
          /\ events[w - 2].op = "validated"
          /\ events[w - 1].op = "returned"
          /\ \A k \in (w - 4)..(w - 1) : SameFile(k, w)
          /\ Exists(fs, events[w].out))
  /\ [](\A k \in Ops("written") \cup Ops("failed") :
          k = Len(events) \/ events[k + 1].op = "attempt")
  /\ [][(mpc \in {"single", "single.parse", "single.core"}) =>
          (fs' = fs /\ (events' # events => events'[Len(events')].op # "written"))]_vars

\* a batch is over in which splitBill threw for the first file, which has no
\* output file, and the second file has one
C19_Witness ==
  /\ MainDone
  /\ InputIsDirectory
  /\ \E f \in Ops("failed"), w \in Ops("written") :
       /\ f < w
       /\ events[f - 1].op = "validated"
       /\ ~Exists(fs, events[f].out)
       /\ Exists(fs, events[w].out)

\* C20: the process exits with status 5 only when main rejected for a JSON
\* syntax error, an input validation error or an unsupported input file
\* format; when the core computation threw or the write failed on a full
\* disk the status is not 5.
C20_FormatStatusOnly ==
  /\ (Exited /\ exitCode = 5) =>
       Says({Phrase.JsonSyntaxInFile, Phrase.JsonValidationInFile,
             Phrase.UnsupportedFileFormat})
  /\ (Exited /\ Says({Phrase.CoreFailed, Phrase.DiskFull})) => exitCode # 5
====
